---- MODULE Spec2Model ----
(***************************************************************************)
(* Terraform provider for Atlassian Compass: the GraphQL transport client, *)
(* the tenant resolver, the provider configuration and the lifecycle       *)
(* callbacks of compass_component and compass_component_link.              *)
(*                                                                         *)
(* Identifiers, tenant names and URLs are sequences of characters/tokens   *)
(* (the code scans and concatenates them); names, types, descriptions and  *)
(* cloud ids are atoms, "" being the empty string.                         *)
(***************************************************************************)
EXTENDS Naturals, Sequences, FiniteSets, TLC

VARIABLES provider, remote, comp, link, call, reqs, goroutine, wire

vars == <<provider, remote, comp, link, call, reqs, goroutine, wire>>

(***************************************************************************)
(* Bounds of the model.                                                    *)
(***************************************************************************)
MaxTenantLen == 2
MaxImportLen == 2
MaxErrors == 2

(***************************************************************************)
(* Program constants.                                                      *)
(***************************************************************************)
StatusOK == 200
graphQLPath == "/graphql"
DomainSuffix == <<".", "a", "t", "l", "a", "s", "s", "i", "a", "n", ".", "n", "e", "t">>

ComponentTypes ==
    {"SERVICE", "LIBRARY", "APPLICATION", "INFRASTRUCTURE", "DATABASE", "DOCUMENTATION"}

LinkTypes ==
    {"DOCUMENT", "CHAT_CHANNEL", "REPOSITORY", "PROJECT", "DASHBOARD", "ON_CALL", "OTHER_LINK"}

(***************************************************************************)
(* Strings.                                                                *)
(***************************************************************************)

StrUpTo(alphabet, n) == UNION {[1..k -> alphabet] : k \in 0..n}

\* strings.Contains(s, ch) for a one-character needle
RECURSIVE Contains(_, _)
Contains(s, ch) ==
    IF s = <<>> THEN FALSE
    ELSE IF Head(s) = ch THEN TRUE ELSE Contains(Tail(s), ch)

NoErr == [kind |-> "none", detail |-> <<>>]
Err(k, d) == [kind |-> k, detail |-> d]
Failed(e) == e.kind # "none"

(***************************************************************************)
(* Transport client (internal/client/client.go).                           *)
(***************************************************************************)
NoClient == [baseURL |-> <<>>, email |-> "", apiToken |-> ""]

NewClient(baseURL, email, apiToken) ==
    IF baseURL = <<>> THEN [client |-> NoClient, err |-> Err("config", <<"baseURL cannot be empty">>)]
    ELSE IF email = "" THEN [client |-> NoClient, err |-> Err("config", <<"email cannot be empty">>)]
    ELSE IF apiToken = "" THEN [client |-> NoClient, err |-> Err("config", <<"apiToken cannot be empty">>)]
    ELSE [client |-> [baseURL |-> baseURL, email |-> email, apiToken |-> apiToken],
          err |-> NoErr]

\* What the network gives back for one POST: a transport failure, or a status
\* and a body; the body is either not JSON or an envelope {data, errors}.
NoData == [shape |-> "nil"]
BadData == [shape |-> "bad"]
Messages == <<"m1", "m2">>

HTTPResponse(mode, payload) ==
    CASE mode = "net"    -> [sent |-> FALSE, status |-> 0, json |-> FALSE,
                             data |-> NoData, errors |-> <<>>]
      [] mode = "status" -> [sent |-> TRUE, status |-> 500, json |-> TRUE,
                             data |-> payload, errors |-> <<>>]
      [] mode = "body"   -> [sent |-> TRUE, status |-> StatusOK, json |-> FALSE,
                             data |-> NoData, errors |-> <<>>]
      [] mode = "errors" -> [sent |-> TRUE, status |-> StatusOK, json |-> TRUE,
                             data |-> payload, errors |-> Messages]
      [] mode = "data"   -> [sent |-> TRUE, status |-> StatusOK, json |-> TRUE,
                             data |-> BadData, errors |-> <<>>]
      [] OTHER           -> [sent |-> TRUE, status |-> StatusOK, json |-> TRUE,
                             data |-> payload, errors |-> <<>>]

\* The body of a response as received: whether it is a JSON envelope, and
\* the envelope's data and errors.
Body(http) == [json |-> http.json, data |-> http.data, errors |-> http.errors]

\* fmt's %v of a []string: the elements separated by single spaces, in brackets
RECURSIVE SpaceJoin(_)
SpaceJoin(msgs) ==
    IF msgs = <<>> THEN <<>>
    ELSE IF Len(msgs) = 1 THEN <<Head(msgs)>>
    ELSE <<Head(msgs), " ">> \o SpaceJoin(Tail(msgs))

Request(c, query, variables) ==
    [url |-> c.baseURL \o <<graphQLPath>>, query |-> query, variables |-> variables]

\* One round trip as the wire saw it: the request and what came back.
Exchange(request, http) == [req |-> request, resp |-> http]

\* Mutant: every status below 300 is taken as success.
ExecuteQuery_Any2xx(c, query, variables, http) ==
    LET req == Exchange(Request(c, query, variables), http) IN
    IF ~http.sent
      THEN [req |-> req, data |-> NoData, err |-> Err("transport", <<>>)]
    ELSE IF http.status >= 300
      THEN [req |-> req, data |-> NoData,
            err |-> Err("status", <<http.status, Body(http)>>)]
    ELSE IF ~http.json
      THEN [req |-> req, data |-> NoData, err |-> Err("unmarshal", <<>>)]
    ELSE IF Len(http.errors) > 0
      THEN [req |-> req, data |-> NoData,
            err |-> Err("graphql", <<"GraphQL errors: ", "[">> \o SpaceJoin(http.errors) \o <<"]">>)]
    ELSE [req |-> req, data |-> http.data, err |-> NoErr]

ExecuteQuery(c, query, variables, http) ==
    LET req == Exchange(Request(c, query, variables), http) IN
    IF ~http.sent
      THEN [req |-> req, data |-> NoData, err |-> Err("transport", <<>>)]
    ELSE IF http.status # StatusOK
      THEN [req |-> req, data |-> NoData,
            err |-> Err("status", <<http.status, Body(http)>>)]
    ELSE IF ~http.json
      THEN [req |-> req, data |-> NoData, err |-> Err("unmarshal", <<>>)]
    ELSE IF Len(http.errors) > 0
      THEN [req |-> req, data |-> NoData,
            err |-> Err("graphql", <<"GraphQL errors: ", "[">> \o SpaceJoin(http.errors) \o <<"]">>)]
    ELSE [req |-> req, data |-> http.data, err |-> NoErr]

(***************************************************************************)
(* Tenant resolver (Client.GetCloudIDByTenant).                            *)
(***************************************************************************)
TenantContextsData(contexts) == [shape |-> "tenantContexts", tenantContexts |-> contexts]

\* Mutant: the suffix is appended to every non-empty tenant name.
GetCloudIDByTenant_AlwaysSuffix(c, tenant, http) ==
    LET hostName == IF tenant # <<>> THEN tenant \o DomainSuffix ELSE tenant
        Decode(r) ==
          IF Failed(r.err)
            THEN [reqs |-> <<r.req>>, cloudID |-> "", err |-> r.err]
          ELSE IF r.data.shape # "tenantContexts"
            THEN [reqs |-> <<r.req>>, cloudID |-> "", err |-> Err("unmarshal", <<>>)]
          ELSE IF Len(r.data.tenantContexts) = 0
            THEN [reqs |-> <<r.req>>, cloudID |-> "", err |-> Err("notfound", hostName)]
          ELSE IF r.data.tenantContexts[1].cloudId = ""
            THEN [reqs |-> <<r.req>>, cloudID |-> "", err |-> Err("notfound", hostName)]
          ELSE [reqs |-> <<r.req>>, cloudID |-> r.data.tenantContexts[1].cloudId,
                err |-> NoErr]
    IN  Decode(ExecuteQuery(c, "tenantContexts", [hostNames |-> <<hostName>>], http))

\* Mutant: an empty cloudId in the first context is returned as a result.
GetCloudIDByTenant_NoEmptyCheck(c, tenant, http) ==
    LET hostName == IF tenant # <<>> /\ ~Contains(tenant, ".")
                      THEN tenant \o DomainSuffix ELSE tenant
        Decode(r) ==
          IF Failed(r.err)
            THEN [reqs |-> <<r.req>>, cloudID |-> "", err |-> r.err]
          ELSE IF r.data.shape # "tenantContexts"
            THEN [reqs |-> <<r.req>>, cloudID |-> "", err |-> Err("unmarshal", <<>>)]
          ELSE IF Len(r.data.tenantContexts) = 0
            THEN [reqs |-> <<r.req>>, cloudID |-> "", err |-> Err("notfound", hostName)]
          ELSE [reqs |-> <<r.req>>, cloudID |-> r.data.tenantContexts[1].cloudId,
                err |-> NoErr]
    IN  Decode(ExecuteQuery(c, "tenantContexts", [hostNames |-> <<hostName>>], http))

\* Decode(r): the function from the return of ExecuteQuery on.
GetCloudIDByTenant(c, tenant, http) ==
    LET hostName == IF tenant # <<>> /\ ~Contains(tenant, ".")
                      THEN tenant \o DomainSuffix ELSE tenant
        Decode(r) ==
          IF Failed(r.err)
            THEN [reqs |-> <<r.req>>, cloudID |-> "", err |-> r.err]
          ELSE IF r.data.shape # "tenantContexts"
            THEN [reqs |-> <<r.req>>, cloudID |-> "", err |-> Err("unmarshal", <<>>)]
          ELSE IF Len(r.data.tenantContexts) = 0
            THEN [reqs |-> <<r.req>>, cloudID |-> "", err |-> Err("notfound", hostName)]
          ELSE IF r.data.tenantContexts[1].cloudId = ""
            THEN [reqs |-> <<r.req>>, cloudID |-> "", err |-> Err("notfound", hostName)]
          ELSE [reqs |-> <<r.req>>, cloudID |-> r.data.tenantContexts[1].cloudId,
                err |-> NoErr]
    IN  Decode(ExecuteQuery(c, "tenantContexts", [hostNames |-> <<hostName>>], http))

(***************************************************************************)
(* Provider configuration (provider.go, configureProvider).                *)
(***************************************************************************)
NoProvider == [ok |-> FALSE, client |-> NoClient, tenant |-> <<>>, err |-> NoErr]

configureProvider(email, apiToken, baseURL, tenant) ==
    IF email = "" THEN [NoProvider EXCEPT !.err = Err("config", <<"email is required">>)]
    ELSE IF apiToken = "" THEN [NoProvider EXCEPT !.err = Err("config", <<"api_token is required">>)]
    ELSE LET c == NewClient(baseURL, email, apiToken) IN
         IF Failed(c.err) THEN [NoProvider EXCEPT !.err = c.err]
         ELSE [ok |-> TRUE, client |-> c.client, tenant |-> tenant, err |-> NoErr]

(***************************************************************************)
(* The remote Compass API, as the repository's stub server answers         *)
(* (mock_graphql_server_test.go): components by id, links by id.           *)
(* A map of GraphQL variables is a record of optional keys: set (the key   *)
(* is in the map), null (its value is nil), val.                           *)
(***************************************************************************)
CompIds == {<<"c">>}
LinkIds == {<<"l">>, <<"m">>}
TypeIds == {"type-service", "type-library"}

Absent == [set |-> FALSE, null |-> FALSE, val |-> ""]
Present(v) == [set |-> TRUE, null |-> FALSE, val |-> v]
Null == [set |-> TRUE, null |-> TRUE, val |-> ""]
\* v, _ := m[key].(string)
AsString(o) == IF o.set /\ ~o.null THEN o.val ELSE ""

NoComponent == [id |-> <<>>, name |-> "", description |-> "", typeId |-> "", ownerId |-> ""]

Lookup(rs, id) == IF id \in DOMAIN rs.comps THEN rs.comps[id] ELSE NoComponent

ComponentData(c) == [shape |-> "GetComponent", component |-> c]
MutationData(op, success, details) ==
    [shape |-> op, success |-> success, componentDetails |-> details]

\* createComponent: stores name, description, ownerId as sent (absent -> ""),
\* and a typeId of its own.
ServerCreateComponent(rs, id, typeId, variables) ==
    [rs EXCEPT !.comps[id] = [id |-> id, name |-> variables.name,
                              description |-> AsString(variables.description),
                              typeId |-> typeId,
                              ownerId |-> AsString(variables.ownerId)]]

\* updateComponent: only the keys present in the input are written; a null
\* ownerId clears it.  A component that does not exist is left alone.
ServerUpdateComponent(rs, input) ==
    IF Lookup(rs, input.id).id = <<>> THEN rs
    ELSE [rs EXCEPT !.comps[input.id] =
            [@ EXCEPT !.name = IF input.name.set /\ ~input.name.null
                                 THEN input.name.val ELSE @,
                      !.description = IF input.description.set /\ ~input.description.null
                                        THEN input.description.val ELSE @,
                      !.ownerId = IF input.ownerId.set THEN AsString(input.ownerId) ELSE @]]

\* deleteComponent: removes the component and the links bound to it.
ServerDeleteComponent(rs, id) ==
    [comps |-> IF id \in DOMAIN rs.comps THEN [rs.comps EXCEPT ![id] = NoComponent]
               ELSE rs.comps,
     links |-> {l \in rs.links : l.componentId # id}]

(***************************************************************************)
(* schema.ResourceData of a component: the merged view the callbacks read  *)
(* with d.Get and write with d.Set / d.SetId; d.HasChange compares it with *)
(* the prior state.                                                        *)
(***************************************************************************)
EmptyComp == [id |-> <<>>, name |-> "", description |-> "", type |-> "",
              owner_id |-> "", cloud_id |-> ""]

\* d.State(): what the host persists when the callback returns, with or
\* without an error; an empty id removes the resource from state.
State(d) == IF d.id = <<>> THEN EmptyComp ELSE d

\* Mutant: a key counts as changed whenever the planned value is set.
HasChange_AgainstEmpty(old, d, key) == d[key] # ""

HasChange(old, d, key) == old[key] # d[key]

(***************************************************************************)
(* Component resource (internal/provider/resource_component.go).           *)
(***************************************************************************)
Ret(d, err, rq, rs) == [d |-> d, err |-> err, reqs |-> rq, rs |-> rs]

\* in: the network's answers to the requests of a call, in the order the call
\* sends them; Rest(in, n) is what is left after n requests.
Rest(in, n) == SubSeq(in, n + 1, Len(in))

\* Mutant: Read takes `type` from the API's typeId.
resourceComponentRead_TypeFromAPI(d, m, rs, in) ==
    LET Decode(r) ==
          IF Failed(r.err) THEN Ret(d, r.err, <<r.req>>, rs)
          ELSE IF r.data.shape # "GetComponent"
            THEN Ret(d, Err("unmarshal", <<>>), <<r.req>>, rs)
          ELSE LET component == r.data.component IN
               IF component.id = <<>>
                 THEN Ret([d EXCEPT !.id = <<>>], NoErr, <<r.req>>, rs)
               ELSE Ret([d EXCEPT !.name = component.name,
                                  !.description = component.description,
                                  !.type = component.typeId,
                                  !.owner_id = IF component.ownerId # ""
                                                 THEN component.ownerId ELSE @],
                        NoErr, <<r.req>>, rs)
    IN  Decode(ExecuteQuery(m.client, "GetComponent", [id |-> d.id],
                            HTTPResponse(in[1].mode, ComponentData(Lookup(rs, d.id)))))

\* Mutant: Read reports a component that is gone as an error.
resourceComponentRead_GoneIsError(d, m, rs, in) ==
    LET Decode(r) ==
          IF Failed(r.err) THEN Ret(d, r.err, <<r.req>>, rs)
          ELSE IF r.data.shape # "GetComponent"
            THEN Ret(d, Err("unmarshal", <<>>), <<r.req>>, rs)
          ELSE LET component == r.data.component IN
               IF component.id = <<>>
                 THEN Ret(d, Err("notfound", <<>>), <<r.req>>, rs)
               ELSE Ret([d EXCEPT !.name = component.name,
                                  !.description = component.description,
                                  !.type = IF d.type # "" THEN d.type
                                           ELSE IF component.typeId # ""
                                             THEN component.typeId
                                           ELSE @,
                                  !.owner_id = IF component.ownerId # ""
                                                 THEN component.ownerId ELSE @],
                        NoErr, <<r.req>>, rs)
    IN  Decode(ExecuteQuery(m.client, "GetComponent", [id |-> d.id],
                            HTTPResponse(in[1].mode, ComponentData(Lookup(rs, d.id)))))

\* Mutant: Read keeps the local `type` only when the API returns no typeId.
resourceComponentRead_PrefersTypeId(d, m, rs, in) ==
    LET Decode(r) ==
          IF Failed(r.err) THEN Ret(d, r.err, <<r.req>>, rs)
          ELSE IF r.data.shape # "GetComponent"
            THEN Ret(d, Err("unmarshal", <<>>), <<r.req>>, rs)
          ELSE LET component == r.data.component IN
               IF component.id = <<>>
                 THEN Ret([d EXCEPT !.id = <<>>], NoErr, <<r.req>>, rs)
               ELSE Ret([d EXCEPT !.name = component.name,
                                  !.description = component.description,
                                  !.type = IF component.typeId # "" THEN component.typeId
                                           ELSE @,
                                  !.owner_id = IF component.ownerId # ""
                                                 THEN component.ownerId ELSE @],
                        NoErr, <<r.req>>, rs)
    IN  Decode(ExecuteQuery(m.client, "GetComponent", [id |-> d.id],
                            HTTPResponse(in[1].mode, ComponentData(Lookup(rs, d.id)))))

\* In the callbacks, the part of the function after a call is an operator
\* of the call's result: Decode(r) is the code from the return of
\* ExecuteQuery on.
resourceComponentRead(d, m, rs, in) ==
    LET Decode(r) ==
          IF Failed(r.err) THEN Ret(d, r.err, <<r.req>>, rs)
          ELSE IF r.data.shape # "GetComponent"
            THEN Ret(d, Err("unmarshal", <<>>), <<r.req>>, rs)
          ELSE LET component == r.data.component IN
               IF component.id = <<>>
                 THEN Ret([d EXCEPT !.id = <<>>], NoErr, <<r.req>>, rs)
               ELSE Ret([d EXCEPT !.name = component.name,
                                  !.description = component.description,
                                  !.type = IF d.type # "" THEN d.type
                                           ELSE IF component.typeId # ""
                                             THEN component.typeId
                                           ELSE @,
                                  !.owner_id = IF component.ownerId # ""
                                                 THEN component.ownerId ELSE @],
                        NoErr, <<r.req>>, rs)
    IN  Decode(ExecuteQuery(m.client, "GetComponent", [id |-> d.id],
                            HTTPResponse(in[1].mode, ComponentData(Lookup(rs, d.id)))))

\* Mutant: with a tenant configured the lookup runs even when cloud_id is set.
ResolveCloudID_AlwaysLookup(d, m, in) ==
    IF d.cloud_id # "" /\ m.tenant = <<>>
      THEN [d |-> d, cloudID |-> d.cloud_id, err |-> NoErr, reqs |-> <<>>]
    ELSE IF m.tenant = <<>>
      THEN [d |-> d, cloudID |-> "", err |-> Err("validation", <<"cloud_id is required">>),
            reqs |-> <<>>]
    ELSE LET Resolved(t) ==
               IF Failed(t.err)
                 THEN [d |-> d, cloudID |-> "", err |-> t.err, reqs |-> t.reqs]
               ELSE [d |-> [d EXCEPT !.cloud_id = t.cloudID], cloudID |-> t.cloudID,
                     err |-> NoErr, reqs |-> t.reqs]
         IN  Resolved(GetCloudIDByTenant(m.client, m.tenant,
                        HTTPResponse(in[1].mode, TenantContextsData(in[1].contexts))))

\* The first step of Create: the explicit cloud_id, else the tenant lookup,
\* whose result is saved with d.Set("cloud_id", ...).
ResolveCloudID(d, m, in) ==
    IF d.cloud_id # ""
      THEN [d |-> d, cloudID |-> d.cloud_id, err |-> NoErr, reqs |-> <<>>]
    ELSE IF m.tenant = <<>>
      THEN [d |-> d, cloudID |-> "", err |-> Err("validation", <<"cloud_id is required">>),
            reqs |-> <<>>]
    ELSE LET Resolved(t) ==
               IF Failed(t.err)
                 THEN [d |-> d, cloudID |-> "", err |-> t.err, reqs |-> t.reqs]
               ELSE [d |-> [d EXCEPT !.cloud_id = t.cloudID], cloudID |-> t.cloudID,
                     err |-> NoErr, reqs |-> t.reqs]
         IN  Resolved(GetCloudIDByTenant(m.client, m.tenant,
                        HTTPResponse(in[1].mode, TenantContextsData(in[1].contexts))))

ValidComponentType(t) == t \in ComponentTypes

\* Resolved(c): from the cloud_id resolution on; Decode(d, sent, rs1, r, in2):
\* from the return of the mutation's ExecuteQuery on, with `sent` the round
\* trips before it, rs1 the remote state after it, in2 the answers left.
resourceComponentCreate(d0, m, rs, in) ==
    LET ReadDone(rq, rs1, rd) == Ret(rd.d, rd.err, rq \o rd.reqs, rs1)
        Decode(d, sent, rs1, r, in2) ==
          LET rq == sent \o <<r.req>> IN
          IF Failed(r.err) THEN Ret(d, r.err, rq, rs1)
          ELSE IF r.data.shape # "createComponent"
            THEN Ret(d, Err("unmarshal", <<>>), rq, rs1)
          ELSE IF ~r.data.success THEN Ret(d, Err("nosuccess", <<>>), rq, rs1)
          ELSE ReadDone(rq, rs1,
                        resourceComponentRead([d EXCEPT !.id = r.data.componentDetails.id],
                                              m, rs1, in2))
        Mutate(d, sent, variables, rs1, a, in2) ==
          Decode(d, sent, rs1,
                 ExecuteQuery(m.client, "createComponent", variables,
                   HTTPResponse(a.mode,
                     CASE a.mode = "nosuccess" ->
                            MutationData("createComponent", FALSE, NoComponent)
                       [] a.mode = "noid" ->
                            MutationData("createComponent", TRUE, NoComponent)
                       [] OTHER ->
                            MutationData("createComponent", TRUE, Lookup(rs1, a.newId)))),
                 in2)
        Send(d, sent, variables, a, in2) ==
          Mutate(d, sent, variables,
                 IF a.mode = "ok"
                   THEN ServerCreateComponent(rs, a.newId, a.typeId, variables)
                 ELSE rs,
                 a, in2)
        Resolved(c) ==
          IF Failed(c.err) THEN Ret(c.d, c.err, c.reqs, rs)
          ELSE IF ~ValidComponentType(c.d.type)
            THEN Ret(c.d, Err("validation", <<"invalid component type">>), c.reqs, rs)
          ELSE Send(c.d, c.reqs,
                    [cloudId |-> c.cloudID, name |-> c.d.name, type |-> c.d.type,
                     description |-> IF c.d.description # "" THEN Present(c.d.description)
                                     ELSE Absent,
                     ownerId |-> IF c.d.owner_id # "" THEN Present(c.d.owner_id)
                                 ELSE Absent],
                    Rest(in, Len(c.reqs))[1], Rest(in, Len(c.reqs) + 1))
    IN  Resolved(ResolveCloudID(d0, m, in))

\* Mutant: Update returns after an accepted mutation without the Read.
resourceComponentUpdate_NoReRead(old, d, m, rs, in) ==
    IF HasChange(old, d, "cloud_id")
      THEN Ret(d, Err("validation", <<"cloud_id cannot be changed">>), <<>>, rs)
    ELSE IF HasChange(old, d, "type")
      THEN Ret(d, Err("validation", <<"type cannot be changed">>), <<>>, rs)
    ELSE IF ~(HasChange(old, d, "name") \/ HasChange(old, d, "description")
              \/ HasChange(old, d, "owner_id"))
      THEN resourceComponentRead(d, m, rs, in)
    ELSE
      LET Decode(rs1, r) ==
            IF Failed(r.err) THEN Ret(d, r.err, <<r.req>>, rs1)
            ELSE IF r.data.shape # "updateComponent"
              THEN Ret(d, Err("unmarshal", <<>>), <<r.req>>, rs1)
            ELSE IF ~r.data.success THEN Ret(d, Err("nosuccess", <<>>), <<r.req>>, rs1)
            ELSE Ret(d, NoErr, <<r.req>>, rs1)
          Mutate(input, rs1) ==
            Decode(rs1,
                   ExecuteQuery(m.client, "updateComponent", [input |-> input],
                     HTTPResponse(in[1].mode,
                       MutationData("updateComponent", in[1].mode # "nosuccess",
                                    Lookup(rs1, d.id)))))
          Send(input) ==
            Mutate(input, IF in[1].mode = "ok" THEN ServerUpdateComponent(rs, input) ELSE rs)
      IN  Send([id |-> d.id,
                name |-> IF HasChange(old, d, "name") THEN Present(d.name) ELSE Absent,
                description |-> IF HasChange(old, d, "description")
                                  THEN Present(d.description) ELSE Absent,
                ownerId |-> IF HasChange(old, d, "owner_id")
                              THEN (IF d.owner_id # "" THEN Present(d.owner_id) ELSE Null)
                            ELSE Absent])

\* old: the prior state; d: the planned values.
resourceComponentUpdate(old, d, m, rs, in) ==
    IF HasChange(old, d, "cloud_id")
      THEN Ret(d, Err("validation", <<"cloud_id cannot be changed">>), <<>>, rs)
    ELSE IF HasChange(old, d, "type")
      THEN Ret(d, Err("validation", <<"type cannot be changed">>), <<>>, rs)
    ELSE IF ~(HasChange(old, d, "name") \/ HasChange(old, d, "description")
              \/ HasChange(old, d, "owner_id"))
      THEN resourceComponentRead(d, m, rs, in)
    ELSE
      LET ReadDone(r, rs1, rd) == Ret(rd.d, rd.err, <<r.req>> \o rd.reqs, rs1)
          Decode(rs1, r) ==
            IF Failed(r.err) THEN Ret(d, r.err, <<r.req>>, rs1)
            ELSE IF r.data.shape # "updateComponent"
              THEN Ret(d, Err("unmarshal", <<>>), <<r.req>>, rs1)
            ELSE IF ~r.data.success THEN Ret(d, Err("nosuccess", <<>>), <<r.req>>, rs1)
            ELSE ReadDone(r, rs1, resourceComponentRead(d, m, rs1, Rest(in, 1)))
          Mutate(input, rs1) ==
            Decode(rs1,
                   ExecuteQuery(m.client, "updateComponent", [input |-> input],
                     HTTPResponse(in[1].mode,
                       MutationData("updateComponent", in[1].mode # "nosuccess",
                                    Lookup(rs1, d.id)))))
          Send(input) ==
            Mutate(input, IF in[1].mode = "ok" THEN ServerUpdateComponent(rs, input) ELSE rs)
      IN  Send([id |-> d.id,
                name |-> IF HasChange(old, d, "name") THEN Present(d.name) ELSE Absent,
                description |-> IF HasChange(old, d, "description")
                                  THEN Present(d.description) ELSE Absent,
                ownerId |-> IF HasChange(old, d, "owner_id")
                              THEN (IF d.owner_id # "" THEN Present(d.owner_id) ELSE Null)
                            ELSE Absent])

\* Mutant: Delete sends its mutation a second time when the first one fails.
resourceComponentDelete_RetriesOnce(d, m, rs, in) ==
    LET Decode(rs1, sent, r) ==
          LET rq == sent \o <<r.req>> IN
          IF Failed(r.err) THEN Ret(d, r.err, rq, rs1)
          ELSE IF r.data.shape # "deleteComponent"
            THEN Ret(d, Err("unmarshal", <<>>), rq, rs1)
          ELSE IF ~r.data.success THEN Ret(d, Err("nosuccess", <<>>), rq, rs1)
          ELSE Ret([d EXCEPT !.id = <<>>], NoErr, rq, rs1)
        Send(sent, a) ==
          Decode(IF a.mode = "ok" THEN ServerDeleteComponent(rs, d.id) ELSE rs, sent,
                 ExecuteQuery(m.client, "deleteComponent", [input |-> [id |-> d.id]],
                   HTTPResponse(a.mode,
                     MutationData("deleteComponent", a.mode # "nosuccess", NoComponent))))
        First(r) ==
          IF Failed(r.err) THEN Send(<<r.req>>, IF Len(in) > 1 THEN in[2] ELSE [mode |-> "net"])
          ELSE Send(<<>>, in[1])
    IN  First(ExecuteQuery(m.client, "deleteComponent", [input |-> [id |-> d.id]],
                           HTTPResponse(in[1].mode,
                             MutationData("deleteComponent", TRUE, NoComponent))))

resourceComponentDelete(d, m, rs, in) ==
    LET Decode(rs1, r) ==
          IF Failed(r.err) THEN Ret(d, r.err, <<r.req>>, rs1)
          ELSE IF r.data.shape # "deleteComponent"
            THEN Ret(d, Err("unmarshal", <<>>), <<r.req>>, rs1)
          ELSE IF ~r.data.success THEN Ret(d, Err("nosuccess", <<>>), <<r.req>>, rs1)
          ELSE Ret([d EXCEPT !.id = <<>>], NoErr, <<r.req>>, rs1)
    IN  Decode(IF in[1].mode = "ok" THEN ServerDeleteComponent(rs, d.id) ELSE rs,
               ExecuteQuery(m.client, "deleteComponent", [input |-> [id |-> d.id]],
                 HTTPResponse(in[1].mode,
                   MutationData("deleteComponent", in[1].mode # "nosuccess", NoComponent))))

(***************************************************************************)
(* The remote API's links (stub server): createComponentLink stores the    *)
(* link under a new id and answers with a success flag only; the links     *)
(* query lists the links of one component, in no particular order.         *)
(***************************************************************************)
LinksData(links) == [shape |-> "GetComponentLinks", links |-> links]
SuccessData(op, success) == [shape |-> op, success |-> success]

\* Mutant: creating a link equal to one the component has stores nothing new.
ServerCreateLink_Dedup(rs, id, input) ==
    IF \E l \in rs.links : /\ l.componentId = input.componentId
                           /\ l.name = input.link.name /\ l.type = input.link.type
                           /\ l.url = input.link.url
                           /\ l.objectId = AsString(input.link.objectId)
      THEN rs
    ELSE [rs EXCEPT !.links = @ \cup {[id |-> id, componentId |-> input.componentId,
                                       name |-> input.link.name, type |-> input.link.type,
                                       url |-> input.link.url,
                                       objectId |-> AsString(input.link.objectId)]}]

ServerCreateLink(rs, id, input) ==
    [rs EXCEPT !.links = @ \cup {[id |-> id, componentId |-> input.componentId,
                                  name |-> input.link.name, type |-> input.link.type,
                                  url |-> input.link.url,
                                  objectId |-> AsString(input.link.objectId)]}]

Patch(l, linkInput) ==
    [l EXCEPT !.name = IF linkInput.name.set THEN AsString(linkInput.name) ELSE @,
              !.type = IF linkInput.type.set THEN AsString(linkInput.type) ELSE @,
              !.url = IF linkInput.url.set THEN AsString(linkInput.url) ELSE @,
              !.objectId = IF linkInput.objectId.set THEN AsString(linkInput.objectId) ELSE @]

ServerUpdateLink(rs, input) ==
    [rs EXCEPT !.links = {IF l.id = input.link.id /\ l.componentId = input.componentId
                            THEN Patch(l, input.link) ELSE l : l \in @}]

ServerDeleteLink(rs, input) ==
    [rs EXCEPT !.links = {l \in @ : ~(l.id = input.link /\ l.componentId = input.componentId)}]

\* The links of a component as the query returns them, listed in `order`
\* (a sequence of link ids).
ServerLinks(rs, componentId, order) ==
    LET F[i \in 0..Len(order)] ==
          IF i = 0 THEN <<>>
          ELSE LET ls == {l \in rs.links : l.id = order[i] /\ l.componentId = componentId}
               IN  IF ls = {} THEN F[i - 1]
                   ELSE LET l == CHOOSE x \in ls : TRUE
                        IN  Append(F[i - 1], [id |-> l.id, name |-> l.name, type |-> l.type,
                                              url |-> l.url, objectId |-> l.objectId])
    IN  F[Len(order)]

(***************************************************************************)
(* Component-link resource (internal/provider/resource_component_link.go). *)
(***************************************************************************)
EmptyLink == [id |-> <<>>, component_id |-> <<>>, cloud_id |-> "", name |-> "",
              type |-> "", url |-> "", object_id |-> ""]

LinkState(d) == IF d.id = <<>> THEN EmptyLink ELSE d

ValidLinkType(t) == t \in LinkTypes

\* Mutant: the read-back matches on name, type and url only.
RECURSIVE FindCreated_IgnoreObjectId(_, _, _)
FindCreated_IgnoreObjectId(links, i, d) ==
    IF i > Len(links) THEN 0
    ELSE IF links[i].name = d.name /\ links[i].type = d.type /\ links[i].url = d.url
      THEN i
    ELSE FindCreated_IgnoreObjectId(links, i + 1, d)

\* The loop of Create's read-back: the index of the first link with the
\* configured name, type and url and the same object id (both empty, or
\* equal), 0 if there is none.
RECURSIVE FindCreated(_, _, _)
FindCreated(links, i, d) ==
    IF i > Len(links) THEN 0
    ELSE IF /\ links[i].name = d.name /\ links[i].type = d.type /\ links[i].url = d.url
            /\ \/ d.object_id = "" /\ links[i].objectId = ""
               \/ d.object_id # "" /\ links[i].objectId = d.object_id
      THEN i
    ELSE FindCreated(links, i + 1, d)

\* The loop of Read: the index of the first link with the given id, 0 if none.
RECURSIVE FindByID(_, _, _)
FindByID(links, i, linkID) ==
    IF i > Len(links) THEN 0
    ELSE IF links[i].id = linkID THEN i
    ELSE FindByID(links, i + 1, linkID)

\* Mutant: Read looks the cloud id up even when the state holds one.
resourceComponentLinkRead_AlwaysResolves(d, m, rs, in) ==
    LET Decode(cloudID, sent, r) ==
          LET rq == sent \o <<r.req>> IN
          IF Failed(r.err) THEN Ret(d, r.err, rq, rs)
          ELSE IF r.data.shape # "GetComponentLinks"
            THEN Ret(d, Err("unmarshal", <<>>), rq, rs)
          ELSE LET i == FindByID(r.data.links, 1, d.id) IN
               IF i = 0 THEN Ret([d EXCEPT !.id = <<>>], NoErr, rq, rs)
               ELSE LET foundLink == r.data.links[i] IN
                    Ret([d EXCEPT !.cloud_id = cloudID,
                                  !.name = foundLink.name,
                                  !.type = foundLink.type,
                                  !.url = foundLink.url,
                                  !.object_id = IF foundLink.objectId # ""
                                                  THEN foundLink.objectId ELSE @],
                        NoErr, rq, rs)
        Query(cloudID, sent, a) ==
          Decode(cloudID, sent,
                 ExecuteQuery(m.client, "GetComponentLinks", [componentId |-> d.component_id],
                   HTTPResponse(a.mode, LinksData(ServerLinks(rs, d.component_id, a.order)))))
        Resolved(t) ==
          IF Failed(t.err) THEN Ret(d, t.err, t.reqs, rs)
          ELSE Query(t.cloudID, t.reqs, Rest(in, Len(t.reqs))[1])
    IN  IF d.cloud_id # "" /\ m.tenant = <<>> THEN Query(d.cloud_id, <<>>, in[1])
        ELSE IF m.tenant = <<>>
          THEN Ret(d, Err("validation", <<"cloud_id is required">>), <<>>, rs)
        ELSE Resolved(GetCloudIDByTenant(m.client, m.tenant,
                        HTTPResponse(in[1].mode, TenantContextsData(in[1].contexts))))

\* Read resolves cloud_id like Create but saves it only with the other fields.
resourceComponentLinkRead(d, m, rs, in) ==
    LET Decode(cloudID, sent, r) ==
          LET rq == sent \o <<r.req>> IN
          IF Failed(r.err) THEN Ret(d, r.err, rq, rs)
          ELSE IF r.data.shape # "GetComponentLinks"
            THEN Ret(d, Err("unmarshal", <<>>), rq, rs)
          ELSE LET i == FindByID(r.data.links, 1, d.id) IN
               IF i = 0 THEN Ret([d EXCEPT !.id = <<>>], NoErr, rq, rs)
               ELSE LET foundLink == r.data.links[i] IN
                    Ret([d EXCEPT !.cloud_id = cloudID,
                                  !.name = foundLink.name,
                                  !.type = foundLink.type,
                                  !.url = foundLink.url,
                                  !.object_id = IF foundLink.objectId # ""
                                                  THEN foundLink.objectId ELSE @],
                        NoErr, rq, rs)
        Query(cloudID, sent, a) ==
          Decode(cloudID, sent,
                 ExecuteQuery(m.client, "GetComponentLinks", [componentId |-> d.component_id],
                   HTTPResponse(a.mode, LinksData(ServerLinks(rs, d.component_id, a.order)))))
        Resolved(t) ==
          IF Failed(t.err) THEN Ret(d, t.err, t.reqs, rs)
          ELSE Query(t.cloudID, t.reqs, Rest(in, Len(t.reqs))[1])
    IN  IF d.cloud_id # "" THEN Query(d.cloud_id, <<>>, in[1])
        ELSE IF m.tenant = <<>>
          THEN Ret(d, Err("validation", <<"cloud_id is required">>), <<>>, rs)
        ELSE Resolved(GetCloudIDByTenant(m.client, m.tenant,
                        HTTPResponse(in[1].mode, TenantContextsData(in[1].contexts))))

\* Resolved(c): from the cloud_id resolution on; Created: from the return of
\* the mutation on; ReadBack: from the return of the links query on.
resourceComponentLinkCreate(d0, m, rs, in) ==
    LET ReadDone(rq, rs1, rd) == Ret(rd.d, rd.err, rq \o rd.reqs, rs1)
        ReadBack(d, sent, rs1, rr, in3) ==
          LET rq == sent \o <<rr.req>> IN
          IF Failed(rr.err) THEN Ret(d, rr.err, rq, rs1)
          ELSE IF rr.data.shape # "GetComponentLinks"
            THEN Ret(d, Err("unmarshal", <<>>), rq, rs1)
          ELSE LET i == FindCreated(rr.data.links, 1, d) IN
               IF i = 0
                 THEN Ret(d, Err("notfound", <<"failed to find created link">>), rq, rs1)
               ELSE ReadDone(rq, rs1,
                             resourceComponentLinkRead([d EXCEPT !.id = rr.data.links[i].id],
                                                       m, rs1, in3))
        Created(d, sent, rs1, r, in2) ==
          LET rq == sent \o <<r.req>> IN
          IF Failed(r.err) THEN Ret(d, r.err, rq, rs1)
          ELSE IF r.data.shape # "createComponentLink"
            THEN Ret(d, Err("unmarshal", <<>>), rq, rs1)
          ELSE IF ~r.data.success THEN Ret(d, Err("nosuccess", <<>>), rq, rs1)
          ELSE ReadBack(d, rq, rs1,
                        ExecuteQuery(m.client, "GetComponentLinks",
                          [componentId |-> d.component_id],
                          HTTPResponse(in2[1].mode,
                            LinksData(ServerLinks(rs1, d.component_id, in2[1].order)))),
                        Rest(in2, 1))
        Send(d, sent, createInput, a, in2) ==
          Created(d, sent,
                  IF a.mode = "ok" THEN ServerCreateLink(rs, a.newId, createInput) ELSE rs,
                  ExecuteQuery(m.client, "createComponentLink", [input |-> createInput],
                    HTTPResponse(a.mode, SuccessData("createComponentLink",
                                                     a.mode # "nosuccess"))),
                  in2)
        Resolved(c) ==
          IF Failed(c.err) THEN Ret(c.d, c.err, c.reqs, rs)
          ELSE IF ~ValidLinkType(c.d.type)
            THEN Ret(c.d, Err("validation", <<"invalid link type">>), c.reqs, rs)
          ELSE Send(c.d, c.reqs,
                    [componentId |-> c.d.component_id,
                     link |-> [name |-> c.d.name, type |-> c.d.type, url |-> c.d.url,
                               objectId |-> IF c.d.object_id # "" THEN Present(c.d.object_id)
                                            ELSE Absent]],
                    Rest(in, Len(c.reqs))[1], Rest(in, Len(c.reqs) + 1))
    IN  Resolved(ResolveCloudID(d0, m, in))

resourceComponentLinkUpdate(old, d, m, rs, in) ==
    IF ~(HasChange(old, d, "name") \/ HasChange(old, d, "type")
         \/ HasChange(old, d, "url") \/ HasChange(old, d, "object_id"))
      THEN resourceComponentLinkRead(d, m, rs, in)
    ELSE IF HasChange(old, d, "type") /\ ~ValidLinkType(d.type)
      THEN Ret(d, Err("validation", <<"invalid link type">>), <<>>, rs)
    ELSE
      LET ReadDone(r, rs1, rd) == Ret(rd.d, rd.err, <<r.req>> \o rd.reqs, rs1)
          Decode(rs1, r) ==
            IF Failed(r.err) THEN Ret(d, r.err, <<r.req>>, rs1)
            ELSE IF r.data.shape # "updateComponentLink"
              THEN Ret(d, Err("unmarshal", <<>>), <<r.req>>, rs1)
            ELSE IF ~r.data.success THEN Ret(d, Err("nosuccess", <<>>), <<r.req>>, rs1)
            ELSE ReadDone(r, rs1, resourceComponentLinkRead(d, m, rs1, Rest(in, 1)))
          Send(updateInput) ==
            Decode(IF in[1].mode = "ok" THEN ServerUpdateLink(rs, updateInput) ELSE rs,
                   ExecuteQuery(m.client, "updateComponentLink", [input |-> updateInput],
                     HTTPResponse(in[1].mode, SuccessData("updateComponentLink",
                                                          in[1].mode # "nosuccess"))))
      IN  Send([componentId |-> d.component_id,
                link |-> [id |-> d.id,
                          name |-> IF HasChange(old, d, "name") THEN Present(d.name)
                                   ELSE Absent,
                          type |-> IF HasChange(old, d, "type") THEN Present(d.type)
                                   ELSE Absent,
                          url |-> IF HasChange(old, d, "url") THEN Present(d.url) ELSE Absent,
                          objectId |-> IF HasChange(old, d, "object_id")
                                         THEN (IF d.object_id # "" THEN Present(d.object_id)
                                               ELSE Null)
                                       ELSE Absent]])

\* Mutant: Delete does not look at the mutation's success flag.
resourceComponentLinkDelete_IgnoresSuccess(d, m, rs, in) ==
    LET Decode(rs1, r) ==
          IF Failed(r.err) THEN Ret(d, r.err, <<r.req>>, rs1)
          ELSE IF r.data.shape # "deleteComponentLink"
            THEN Ret(d, Err("unmarshal", <<>>), <<r.req>>, rs1)
          ELSE Ret([d EXCEPT !.id = <<>>], NoErr, <<r.req>>, rs1)
        Send(deleteInput) ==
          Decode(IF in[1].mode = "ok" THEN ServerDeleteLink(rs, deleteInput) ELSE rs,
                 ExecuteQuery(m.client, "deleteComponentLink", [input |-> deleteInput],
                   HTTPResponse(in[1].mode, SuccessData("deleteComponentLink",
                                                        in[1].mode # "nosuccess"))))
    IN  Send([componentId |-> d.component_id, link |-> d.id])

resourceComponentLinkDelete(d, m, rs, in) ==
    LET Decode(rs1, r) ==
          IF Failed(r.err) THEN Ret(d, r.err, <<r.req>>, rs1)
          ELSE IF r.data.shape # "deleteComponentLink"
            THEN Ret(d, Err("unmarshal", <<>>), <<r.req>>, rs1)
          ELSE IF ~r.data.success THEN Ret(d, Err("nosuccess", <<>>), <<r.req>>, rs1)
          ELSE Ret([d EXCEPT !.id = <<>>], NoErr, <<r.req>>, rs1)
        Send(deleteInput) ==
          Decode(IF in[1].mode = "ok" THEN ServerDeleteLink(rs, deleteInput) ELSE rs,
                 ExecuteQuery(m.client, "deleteComponentLink", [input |-> deleteInput],
                   HTTPResponse(in[1].mode, SuccessData("deleteComponentLink",
                                                        in[1].mode # "nosuccess"))))
    IN  Send([componentId |-> d.component_id, link |-> d.id])

\* Mutant: the scan runs from the start and stops at the first separator.
RECURSIVE LastSeparator_First(_, _)
LastSeparator_First(id, i) ==
    IF i < 1 THEN 0
    ELSE LET j == Len(id) - i + 1 IN
         IF id[j] = ":" \/ id[j] = "/" THEN j
         ELSE LastSeparator_First(id, i - 1)

\* The scan of Import: the position of the last ':' or '/', 0 if there is none.
RECURSIVE LastSeparator(_, _)
LastSeparator(id, i) ==
    IF i < 1 THEN 0
    ELSE IF id[i] = ":" \/ id[i] = "/" THEN i
    ELSE LastSeparator(id, i - 1)

SplitImportID(id) ==
    LET Split(i) == IF i = 0 THEN <<>>
                    ELSE <<SubSeq(id, 1, i - 1), SubSeq(id, i + 1, Len(id))>>
    IN  Split(LastSeparator(id, Len(id)))

\* On an error Import returns no ResourceData (nil): nothing is imported.
resourceComponentLinkImport(id, m, rs, in) ==
    LET ReadDone(rd) == IF Failed(rd.err) THEN Ret(EmptyLink, rd.err, rd.reqs, rs) ELSE rd
        Parsed(parts) ==
          IF Len(parts) # 2
            THEN Ret(EmptyLink, Err("import", <<"invalid import format">>), <<>>, rs)
          ELSE ReadDone(resourceComponentLinkRead(
                          [EmptyLink EXCEPT !.id = parts[2], !.component_id = parts[1]],
                          m, rs, in))
    IN  Parsed(SplitImportID(id))

(***************************************************************************)
(* Inputs: provider configurations, resource configurations and the        *)
(* network's answers.                                                      *)
(***************************************************************************)
Emails == {"", "test@example.com"}
Tokens == {"", "test-token"}
BaseURLs == {<<>>, <<"https://", "api.atlassian.com">>, <<"http://", "127.0.0.1:8080">>}
ConfigTenants == {<<>>, <<"a">>}

FailModes == {"net", "status", "errors", "body", "data"}
\* The failures tried on the link operations' requests.
LinkFailModes == {"net", "errors", "data"}

Contexts == {<<>>, <<[cloudId |-> ""]>>, <<[cloudId |-> "cloud-123"]>>,
             <<[cloudId |-> "cloud-9"], [cloudId |-> "cloud-123"]>>}

Answer(mode) ==
    [mode |-> mode, contexts |-> <<>>, newId |-> <<>>, typeId |-> "", order |-> <<>>]
Unanswered == Answer("net")

\* The orders in which a links query may list the links.
Orders == {o \in [1..Cardinality(LinkIds) -> LinkIds] : \A i, j \in DOMAIN o : i # j => o[i] # o[j]}

\* What the network may answer to a request, by the operation it carries.
AnswersTo(query) ==
    CASE query = "tenantContexts" ->
           {Answer(f) : f \in FailModes}
             \cup {[Answer("ok") EXCEPT !.contexts = c] : c \in Contexts}
      [] query = "createComponent" ->
           {Answer(f) : f \in FailModes \cup {"nosuccess", "noid"}}
             \cup {[Answer("ok") EXCEPT !.newId = i, !.typeId = t] : i \in CompIds, t \in TypeIds}
      [] query = "GetComponent" -> {Answer(f) : f \in FailModes \cup {"ok"}}
      [] query = "createComponentLink" ->
           {Answer(f) : f \in LinkFailModes \cup {"nosuccess"}}
             \cup {[Answer("ok") EXCEPT !.newId = i] :
                     i \in LinkIds \ {l.id : l \in remote.links}}
      [] query = "GetComponentLinks" ->
           {Answer(f) : f \in LinkFailModes}
             \cup {[Answer("ok") EXCEPT !.order = o] : o \in Orders}
      [] query \in {"updateComponentLink", "deleteComponentLink"} ->
           {Answer(f) : f \in LinkFailModes \cup {"nosuccess", "ok"}}
      [] OTHER -> {Answer(f) : f \in FailModes \cup {"nosuccess", "ok"}}

\* Every way a call can go: the call is run on the answers given so far and,
\* while it sends one more request than it has answers, each answer to that
\* request is tried.
RECURSIVE Outcomes(_, _)
Outcomes(Call(_), in) ==
    LET r == Call(Append(in, Unanswered)) IN
    IF Len(r.reqs) <= Len(in) THEN {Call(in)}
    ELSE UNION {Outcomes(Call, Append(in, a)) :
                  a \in AnswersTo(r.reqs[Len(in) + 1].req.query)}

\* Component configurations: every name/description/owner_id combination for
\* two of the types, and every type (and one value outside the enumeration)
\* with and without description and owner_id.
CompConfigs ==
    [name : {"svc-a", "svc-b"}, description : {"", "desc-1"},
     type : {"SERVICE", "LIBRARY"}, owner_id : {"", "owner-xyz"},
     cloud_id : {"", "cloud-123"}]
    \cup
    {[name |-> "svc-a", description |-> x[1], type |-> t, owner_id |-> x[2], cloud_id |-> c] :
       x \in {<<"", "">>, <<"desc-1", "owner-xyz">>},
       t \in ComponentTypes \cup {"BOGUS"}, c \in {"", "cloud-123"}}

ImportIds == CompIds \cup {<<"x">>}

\* The ResourceData a callback starts from.  Create: the configuration, no id.
\* Update: the prior state overlaid with the configuration; cloud_id is
\* Optional+Computed, so an unset cloud_id keeps the state's value.
NewData(cfg) ==
    [id |-> <<>>, name |-> cfg.name, description |-> cfg.description, type |-> cfg.type,
     owner_id |-> cfg.owner_id, cloud_id |-> cfg.cloud_id]

PlannedData(old, cfg) ==
    [id |-> old.id, name |-> cfg.name, description |-> cfg.description, type |-> cfg.type,
     owner_id |-> cfg.owner_id,
     cloud_id |-> IF cfg.cloud_id = "" THEN old.cloud_id ELSE cfg.cloud_id]

\* Link configurations: every object_id/cloud_id combination for one name,
\* type and url, and one more for each of: another name, another type, a
\* type outside the enumeration (with and without cloud_id), another url,
\* another object id.
LinkCompIds == {<<"c">>, <<"c", ":", "c">>}
LinkConfig(n, t, u, o, cl) ==
    [component_id |-> <<"c">>, name |-> n, type |-> t, url |-> u, object_id |-> o,
     cloud_id |-> cl]
LinkConfigs ==
    {LinkConfig("Repo", "REPOSITORY", "https://r.example/1", o, cl) :
       o \in {"", "obj-123"}, cl \in {"", "cloud-123"}}
    \cup
    {LinkConfig("Docs", "REPOSITORY", "https://r.example/1", "", "cloud-123"),
     LinkConfig("Repo", "DOCUMENT", "https://r.example/1", "", "cloud-123"),
     LinkConfig("Repo", "BOGUS", "https://r.example/1", "", "cloud-123"),
     LinkConfig("Repo", "BOGUS", "https://r.example/1", "", ""),
     LinkConfig("Repo", "REPOSITORY", "https://r.example/2", "", "cloud-123"),
     LinkConfig("Repo", "REPOSITORY", "https://r.example/1", "obj-9", "cloud-123")}

\* Import strings: every string of at most MaxImportLen characters, and every
\* component id joined to every link id by either separator.
LinkImportIds ==
    StrUpTo({"c", ":", "/"}, MaxImportLen)
    \cup {c \o <<x>> \o l : c \in LinkCompIds, x \in {":", "/"}, l \in LinkIds}

NewLinkData(cfg) ==
    [id |-> <<>>, component_id |-> cfg.component_id, cloud_id |-> cfg.cloud_id,
     name |-> cfg.name, type |-> cfg.type, url |-> cfg.url, object_id |-> cfg.object_id]

PlannedLinkData(old, cfg) ==
    [id |-> old.id, component_id |-> cfg.component_id,
     cloud_id |-> IF cfg.cloud_id = "" THEN old.cloud_id ELSE cfg.cloud_id,
     name |-> cfg.name, type |-> cfg.type, url |-> cfg.url, object_id |-> cfg.object_id]

(***************************************************************************)
(* Actions.  A lifecycle callback runs to its return in one step and       *)
(* leaves its ResourceData and diagnostics in `call` and its round trips   *)
(* in `reqs`; the host then persists d.State() (PersistState).  While      *)
(* `call` is set, `comp` still holds the state from before the call.       *)
(***************************************************************************)
\* The compass_component_link resources of the configuration.
LinkRes == {"link_a", "link_b"}

EmptyRemote == [comps |-> [i \in CompIds |-> NoComponent], links |-> {}]
Idle == [op |-> "idle"]

\* Callbacks the host runs in parallel (one goroutine per resource instance):
\* `goroutine` holds each one's frame, `wire` the HTTP connection its
\* ExecuteQuery is waiting on.
Goroutines == {"g1", "g2"}
ResourceOf(g) == IF g = "g1" THEN "link_a" ELSE "link_b"

NoResponse == [sent |-> FALSE, status |-> 0, json |-> FALSE, data |-> NoData, errors |-> <<>>]
NoConn == [req |-> [url |-> <<>>, query |-> "", variables |-> <<>>],
           answered |-> FALSE, resp |-> NoResponse]
IdleFrame == [pc |-> "idle", step |-> "", cfg |-> LinkConfig("", "", "", "", ""),
              d |-> EmptyLink, err |-> NoErr, log |-> <<>>]

Init ==
    /\ provider = NoProvider
    /\ remote = EmptyRemote
    /\ comp = EmptyComp
    /\ link = [r \in LinkRes |-> EmptyLink]
    /\ call = Idle
    /\ reqs = <<>>
    /\ goroutine = [g \in Goroutines |-> IdleFrame]
    /\ wire = [g \in Goroutines |-> NoConn]

ConfigureProvider ==
    /\ ~provider.ok
    /\ \E email \in Emails, apiToken \in Tokens, baseURL \in BaseURLs, tenant \in ConfigTenants :
         provider' = configureProvider(email, apiToken, baseURL, tenant)
    /\ UNCHANGED <<remote, comp, link, call, reqs, goroutine, wire>>

Ready == provider.ok /\ call = Idle

Finish(op, r, cfg) ==
    /\ call' = [op |-> op, cfg |-> cfg, d |-> r.d, err |-> r.err]
    /\ remote' = r.rs
    /\ reqs' = r.reqs
    /\ UNCHANGED <<provider, comp, link, goroutine, wire>>

\* configs: the configurations the resource block may hold.
ComponentCreateWith(configs) ==
    /\ Ready
    /\ comp.id = <<>>
    /\ \E cfg \in configs :
         LET Call(in) == resourceComponentCreate(NewData(cfg), provider, remote, in)
         IN  \E r \in Outcomes(Call, <<>>) : Finish("ComponentCreate", r, cfg)

ComponentCreate == ComponentCreateWith(CompConfigs)

ComponentRead ==
    /\ Ready
    /\ comp.id # <<>>
    /\ LET Call(in) == resourceComponentRead(comp, provider, remote, in)
       IN  \E r \in Outcomes(Call, <<>>) : Finish("ComponentRead", r, comp)

ComponentUpdateWith(configs) ==
    /\ Ready
    /\ comp.id # <<>>
    /\ \E cfg \in configs :
         LET Call(in) == resourceComponentUpdate(comp, PlannedData(comp, cfg), provider,
                                                 remote, in)
         IN  \E r \in Outcomes(Call, <<>>) : Finish("ComponentUpdate", r, cfg)

ComponentUpdate == ComponentUpdateWith(CompConfigs)

ComponentDelete ==
    /\ Ready
    /\ comp.id # <<>>
    /\ LET Call(in) == resourceComponentDelete(comp, provider, remote, in)
       IN  \E r \in Outcomes(Call, <<>>) : Finish("ComponentDelete", r, comp)

\* schema.ImportStatePassthroughContext: the import string becomes the id;
\* the host then refreshes with Read.
ComponentImport ==
    /\ Ready
    /\ comp.id = <<>>
    /\ \E id \in ImportIds :
         call' = [op |-> "ComponentImport", cfg |-> id,
                  d |-> [EmptyComp EXCEPT !.id = id], err |-> NoErr]
    /\ reqs' = <<>>
    /\ UNCHANGED <<provider, remote, comp, link, goroutine, wire>>

\* The host takes the callback's result: d.State() becomes the resource's state.
PersistState ==
    /\ call # Idle
    /\ call.op \in {"ComponentCreate", "ComponentRead", "ComponentUpdate", "ComponentDelete",
                    "ComponentImport"}
    /\ comp' = State(call.d)
    /\ call' = Idle
    /\ reqs' = <<>>
    /\ UNCHANGED <<provider, remote, link, goroutine, wire>>

Next ==
    \/ ConfigureProvider
    \/ ComponentCreate
    \/ ComponentRead
    \/ ComponentUpdate
    \/ ComponentDelete
    \/ ComponentImport
    \/ PersistState

Spec == Init /\ [][Next]_vars

(***************************************************************************)
(* The link resources.  `call.res` names the resource the callback runs    *)
(* for and `call.created` the ids of the remote links that exist after the *)
(* call and did not before it.                                             *)
(***************************************************************************)
FinishLink(op, res, r, cfg) ==
    /\ call' = [op |-> op, res |-> res, cfg |-> cfg, d |-> r.d, err |-> r.err,
                created |-> {l.id : l \in r.rs.links} \ {l.id : l \in remote.links}]
    /\ remote' = r.rs
    /\ reqs' = r.reqs
    /\ UNCHANGED <<provider, comp, link, goroutine, wire>>

LinkCreateWith(res, configs) ==
    /\ Ready
    /\ link[res].id = <<>>
    /\ \E cfg \in configs :
         LET Call(in) == resourceComponentLinkCreate(NewLinkData(cfg), provider, remote, in)
         IN  \E r \in Outcomes(Call, <<>>) : FinishLink("LinkCreate", res, r, cfg)

LinkCreate(res) == LinkCreateWith(res, LinkConfigs)

LinkRead(res) ==
    /\ Ready
    /\ link[res].id # <<>>
    /\ LET Call(in) == resourceComponentLinkRead(link[res], provider, remote, in)
       IN  \E r \in Outcomes(Call, <<>>) : FinishLink("LinkRead", res, r, link[res])

\* component_id and cloud_id are ForceNew: Update runs only when neither changes.
LinkUpdateWith(res, configs) ==
    /\ Ready
    /\ link[res].id # <<>>
    /\ \E cfg \in configs :
         /\ cfg.component_id = link[res].component_id
         /\ cfg.cloud_id \in {"", link[res].cloud_id}
         /\ LET Call(in) == resourceComponentLinkUpdate(link[res],
                               PlannedLinkData(link[res], cfg), provider, remote, in)
            IN  \E r \in Outcomes(Call, <<>>) : FinishLink("LinkUpdate", res, r, cfg)

LinkUpdate(res) == LinkUpdateWith(res, LinkConfigs)

LinkDelete(res) ==
    /\ Ready
    /\ link[res].id # <<>>
    /\ LET Call(in) == resourceComponentLinkDelete(link[res], provider, remote, in)
       IN  \E r \in Outcomes(Call, <<>>) : FinishLink("LinkDelete", res, r, link[res])

LinkImportWith(res, ids) ==
    /\ Ready
    /\ link[res].id = <<>>
    /\ \E id \in ids :
         LET Call(in) == resourceComponentLinkImport(id, provider, remote, in)
         IN  \E r \in Outcomes(Call, <<>>) : FinishLink("LinkImport", res, r, id)

LinkImport(res) == LinkImportWith(res, LinkImportIds)

PersistLinkState ==
    /\ call # Idle
    /\ call.op \in {"LinkCreate", "LinkRead", "LinkUpdate", "LinkDelete", "LinkImport"}
    /\ link' = [link EXCEPT ![call.res] = LinkState(call.d)]
    /\ call' = Idle
    /\ reqs' = <<>>
    /\ UNCHANGED <<provider, remote, comp, goroutine, wire>>

NextLink ==
    \/ ConfigureProvider
    \/ LinkCreate("link_a")
    \/ LinkRead("link_a")
    \/ LinkUpdate("link_a")
    \/ LinkDelete("link_a")
    \/ LinkImport("link_a")
    \/ PersistLinkState

SpecLink == Init /\ [][NextLink]_vars

(***************************************************************************)
(* One component and one link of it managed together, as in the acceptance *)
(* tests' configurations (resource_component_test.go,                      *)
(* resource_component_link_test.go): the link's component_id is the        *)
(* component's id, and deleting the component removes its links remotely.  *)
(***************************************************************************)
ProviderCompConfigs ==
    {[name |-> "svc-a", description |-> "", type |-> "SERVICE", owner_id |-> "",
      cloud_id |-> cl] : cl \in {"", "cloud-123"}}
    \cup {[name |-> "svc-b", description |-> "desc-1", type |-> "SERVICE",
           owner_id |-> "owner-xyz", cloud_id |-> ""]}

ProviderLinkConfigs ==
    {LinkConfig("Repo", "REPOSITORY", "https://r.example/1", "", cl) :
       cl \in {"", "cloud-123"}}
    \cup {LinkConfig("Docs", "REPOSITORY", "https://r.example/1", "obj-123", "")}

ProviderLinkImportIds == {<<"c", ":", "l">>, <<"c", "/", "m">>}

NextProvider ==
    \/ ConfigureProvider
    \/ ComponentCreateWith(ProviderCompConfigs)
    \/ ComponentRead
    \/ ComponentUpdateWith(ProviderCompConfigs)
    \/ ComponentDelete
    \/ PersistState
    \/ LinkCreateWith("link_a", ProviderLinkConfigs)
    \/ LinkRead("link_a")
    \/ LinkUpdateWith("link_a", ProviderLinkConfigs)
    \/ LinkDelete("link_a")
    \/ LinkImportWith("link_a", ProviderLinkImportIds)
    \/ PersistLinkState

SpecProvider == Init /\ [][NextProvider]_vars

(***************************************************************************)
(* Two link Creates run in parallel by the host, one per resource          *)
(* instance, on the one shared client.  A callback is cut at its requests: *)
(* it runs to its next ExecuteQuery and leaves the request on its          *)
(* connection (Sends), the server answers the requests one at a time       *)
(* (its handler holds state.mu), and when ExecuteQuery returns the         *)
(* callback runs on to its next request or to its return (Returns).        *)
(***************************************************************************)
ConcurrentLinkConfigs ==
    {LinkConfig("Repo", "REPOSITORY", "https://r.example/1", "", "cloud-123"),
     LinkConfig("Repo", "REPOSITORY", "https://r.example/1", "", ""),
     LinkConfig("Repo", "REPOSITORY", "https://r.example/1", "obj-123", "cloud-123"),
     LinkConfig("Repo", "BOGUS", "https://r.example/1", "", "cloud-123")}

\* The answers tried in parallel runs: the request is lost, or it is served.
ConcurrentAnswers(query) ==
    {a \in AnswersTo(query) :
       /\ a.mode \in {"net", "ok"}
       /\ query = "tenantContexts" /\ a.mode = "ok"
            => a.contexts = <<[cloudId |-> "cloud-123"]>>}

Sends(f, step, req) ==
    [frame |-> [f EXCEPT !.pc = "waiting", !.step = step],
     conn |-> [req |-> req, answered |-> FALSE, resp |-> NoResponse]]

Returns(f, d, err) ==
    [frame |-> [f EXCEPT !.pc = "returned", !.step = "", !.d = d, !.err = err],
     conn |-> NoConn]

\* Mutant: the response is kept in a field shared by the callers, so a call
\* may read the one that arrived for another call.
ResponseOf_Shared(g, w) ==
    IF \E h \in DOMAIN w : h # g /\ w[h].answered
      THEN w[CHOOSE h \in DOMAIN w : h # g /\ w[h].answered].resp
    ELSE w[g].resp

\* resp, err := c.httpClient.Do(req): the response ExecuteQuery reads is the
\* one that arrived on the connection of its own request.
ResponseOf(g, w) == w[g].resp

\* Link Create from its entry to its first request (or early return).
LinkCreateEnter(f, m) ==
    LET createInput(d) ==
          [componentId |-> d.component_id,
           link |-> [name |-> d.name, type |-> d.type, url |-> d.url,
                     objectId |-> IF d.object_id # "" THEN Present(d.object_id)
                                  ELSE Absent]]
        Validated(d) ==
          IF ~ValidLinkType(d.type)
            THEN Returns(f, d, Err("validation", <<"invalid link type">>))
          ELSE Sends([f EXCEPT !.d = d], "create",
                     Request(m.client, "createComponentLink", [input |-> createInput(d)]))
        Lookup1(t) == Sends(f, "resolve", t.reqs[1].req)
    IN  IF f.d.cloud_id # "" THEN Validated(f.d)
        ELSE IF m.tenant = <<>>
          THEN Returns(f, f.d, Err("validation", <<"cloud_id is required">>))
        ELSE Lookup1(GetCloudIDByTenant(m.client, m.tenant, NoResponse))

\* Link Create from the return of an ExecuteQuery to the next request or to
\* the callback's return; http is the response the call read.
LinkCreateResume(f, m, http) ==
    LET d == f.d
        createInput(d1) ==
          [componentId |-> d1.component_id,
           link |-> [name |-> d1.name, type |-> d1.type, url |-> d1.url,
                     objectId |-> IF d1.object_id # "" THEN Present(d1.object_id)
                                  ELSE Absent]]
        linksQuery == Request(m.client, "GetComponentLinks", [componentId |-> d.component_id])
        Resolved(t) ==
          IF Failed(t.err) THEN Returns(f, d, t.err)
          ELSE IF ~ValidLinkType(d.type)
            THEN Returns(f, [d EXCEPT !.cloud_id = t.cloudID],
                         Err("validation", <<"invalid link type">>))
          ELSE Sends([f EXCEPT !.d.cloud_id = t.cloudID], "create",
                     Request(m.client, "createComponentLink",
                             [input |-> createInput([d EXCEPT !.cloud_id = t.cloudID])]))
        Created(r) ==
          IF Failed(r.err) THEN Returns(f, d, r.err)
          ELSE IF r.data.shape # "createComponentLink"
            THEN Returns(f, d, Err("unmarshal", <<>>))
          ELSE IF ~r.data.success THEN Returns(f, d, Err("nosuccess", <<>>))
          ELSE Sends(f, "readback", linksQuery)
        Adopt(r, i) ==
          IF i = 0 THEN Returns(f, d, Err("notfound", <<"failed to find created link">>))
          ELSE Sends([f EXCEPT !.d.id = r.data.links[i].id], "read", linksQuery)
        ReadBack(r) ==
          IF Failed(r.err) THEN Returns(f, d, r.err)
          ELSE IF r.data.shape # "GetComponentLinks"
            THEN Returns(f, d, Err("unmarshal", <<>>))
          ELSE Adopt(r, FindCreated(r.data.links, 1, d))
        Found(r, i) ==
          IF i = 0 THEN Returns(f, [d EXCEPT !.id = <<>>], NoErr)
          ELSE Returns(f, [d EXCEPT !.name = r.data.links[i].name,
                                    !.type = r.data.links[i].type,
                                    !.url = r.data.links[i].url,
                                    !.object_id = IF r.data.links[i].objectId # ""
                                                    THEN r.data.links[i].objectId ELSE @],
                       NoErr)
        Read(r) ==
          IF Failed(r.err) THEN Returns(f, d, r.err)
          ELSE IF r.data.shape # "GetComponentLinks"
            THEN Returns(f, d, Err("unmarshal", <<>>))
          ELSE Found(r, FindByID(r.data.links, 1, d.id))
    IN  CASE f.step = "resolve" -> Resolved(GetCloudIDByTenant(m.client, m.tenant, http))
          [] f.step = "create" ->
               Created(ExecuteQuery(m.client, "createComponentLink",
                                    [input |-> createInput(d)], http))
          [] f.step = "readback" ->
               ReadBack(ExecuteQuery(m.client, "GetComponentLinks",
                                     [componentId |-> d.component_id], http))
          [] OTHER ->
               Read(ExecuteQuery(m.client, "GetComponentLinks",
                                 [componentId |-> d.component_id], http))

\* The server's handler for one request, answered as `a`.
ServerHandle(rs, req, a) ==
    CASE req.query = "tenantContexts" ->
           [rs |-> rs, resp |-> HTTPResponse(a.mode, TenantContextsData(a.contexts))]
      [] req.query = "createComponentLink" ->
           [rs |-> IF a.mode = "ok" THEN ServerCreateLink(rs, a.newId, req.variables.input)
                   ELSE rs,
            resp |-> HTTPResponse(a.mode, SuccessData("createComponentLink", TRUE))]
      [] OTHER ->
           [rs |-> rs,
            resp |-> HTTPResponse(a.mode,
                       LinksData(ServerLinks(rs, req.variables.componentId, a.order)))]

Step(g, next) ==
    /\ goroutine' = [goroutine EXCEPT ![g] = next.frame]
    /\ wire' = [wire EXCEPT ![g] = next.conn]

GoLinkCreate(g) ==
    /\ provider.ok
    /\ goroutine[g].pc = "idle"
    /\ link[ResourceOf(g)].id = <<>>
    /\ \E cfg \in ConcurrentLinkConfigs :
         Step(g, LinkCreateEnter([IdleFrame EXCEPT !.cfg = cfg, !.d = NewLinkData(cfg)],
                                 provider))
    /\ UNCHANGED <<provider, remote, comp, link, call, reqs>>

Serve(g) ==
    /\ goroutine[g].pc = "waiting"
    /\ ~wire[g].answered
    /\ \E a \in ConcurrentAnswers(wire[g].req.query) :
         LET Done(h) == /\ remote' = h.rs
                        /\ wire' = [wire EXCEPT ![g].answered = TRUE, ![g].resp = h.resp]
         IN  Done(ServerHandle(remote, wire[g].req, a))
    /\ UNCHANGED <<provider, comp, link, call, reqs, goroutine>>

\* ExecuteQuery returns in goroutine g; `log` records the exchange the call
\* saw, what it returned, and the response that arrived on its connection.
GoResume(g) ==
    /\ goroutine[g].pc = "waiting"
    /\ wire[g].answered
    /\ LET Logged(f, r) ==
             [f EXCEPT !.log = Append(@, [x |-> r.req, data |-> r.data, err |-> r.err,
                                          own |-> wire[g].resp])]
           Resume(http, r) == Step(g, LinkCreateResume(Logged(goroutine[g], r), provider, http))
           Got(http) == Resume(http, ExecuteQuery(provider.client, wire[g].req.query,
                                                  wire[g].req.variables, http))
       IN  Got(ResponseOf(g, wire))
    /\ UNCHANGED <<provider, remote, comp, link, call, reqs>>

\* The callback has returned: the host persists d.State().
GoReturn(g) ==
    /\ goroutine[g].pc = "returned"
    /\ link' = [link EXCEPT ![ResourceOf(g)] = LinkState(goroutine[g].d)]
    /\ goroutine' = [goroutine EXCEPT ![g].pc = "idle"]
    /\ UNCHANGED <<provider, remote, comp, call, reqs, wire>>

NextConcurrent ==
    \/ ConfigureProvider
    \/ \E g \in Goroutines : GoLinkCreate(g)
    \/ \E g \in Goroutines : Serve(g)
    \/ \E g \in Goroutines : GoResume(g)
    \/ \E g \in Goroutines : GoReturn(g)

SpecConcurrent == Init /\ [][NextConcurrent]_vars

(***************************************************************************)
(* The transport client and the tenant resolver called on their own.       *)
(* Both call sites of GetCloudIDByTenant pass a non-empty tenant.          *)
(***************************************************************************)
Tenants == {t \o x : t \in StrUpTo({"a", "."}, MaxTenantLen) \ {<<>>},
                     x \in {<<>>, DomainSuffix}}

CallGetCloudIDByTenant ==
    /\ Ready
    /\ \E tenant \in Tenants :
         LET Call(in) == GetCloudIDByTenant(provider.client, tenant,
                           HTTPResponse(in[1].mode, TenantContextsData(in[1].contexts)))
         IN  \E r \in Outcomes(Call, <<>>) :
               /\ call' = [op |-> "GetCloudIDByTenant", cfg |-> tenant,
                           d |-> r.cloudID, err |-> r.err]
               /\ reqs' = r.reqs
    /\ UNCHANGED <<provider, remote, comp, link, goroutine, wire>>

\* Responses to one POST: no response at all, or a status with a body that is
\* garbage or an envelope with or without data and with up to MaxErrors errors.
Statuses == {StatusOK, 201, 404, 500}
Payloads == {NoData, TenantContextsData(<<[cloudId |-> "cloud-123"]>>)}
ErrorLists == StrUpTo({"m1", "m2"}, MaxErrors)
HTTPResponses ==
    {[sent |-> FALSE, status |-> 0, json |-> FALSE, data |-> NoData, errors |-> <<>>]}
    \cup {[sent |-> TRUE, status |-> st, json |-> FALSE, data |-> NoData, errors |-> <<>>] :
            st \in Statuses}
    \cup {[sent |-> TRUE, status |-> st, json |-> TRUE, data |-> p, errors |-> e] :
            st \in Statuses, p \in Payloads, e \in ErrorLists}

CallExecuteQuery ==
    /\ Ready
    /\ \E http \in HTTPResponses :
         LET Done(r) ==
               /\ call' = [op |-> "ExecuteQuery", cfg |-> http, d |-> r.data, err |-> r.err]
               /\ reqs' = <<r.req>>
         IN  Done(ExecuteQuery(provider.client, "tenantContexts",
                               [hostNames |-> <<<<"a">> \o DomainSuffix>>], http))
    /\ UNCHANGED <<provider, remote, comp, link, goroutine, wire>>

Return ==
    /\ call # Idle
    /\ call' = Idle
    /\ reqs' = <<>>
    /\ UNCHANGED <<provider, remote, comp, link, goroutine, wire>>

NextClient ==
    \/ ConfigureProvider
    \/ CallGetCloudIDByTenant
    \/ CallExecuteQuery
    \/ Return

SpecClient == Init /\ [][NextClient]_vars

(***************************************************************************)
(* Properties.                                                             *)
(***************************************************************************)
Sent(query) == {i \in 1..Len(reqs) : reqs[i].req.query = query}

\* The exchange was answered with status 200 and an error-free envelope.
Answered(x) ==
    /\ x.resp.sent /\ x.resp.status = 200 /\ x.resp.json
    /\ x.resp.errors = <<>> /\ x.resp.data.shape = x.req.query

HasDot(s) == \E i \in 1..Len(s) : s[i] = "."

InvalidComponentType(t) ==
    t \notin {"SERVICE", "LIBRARY", "APPLICATION", "INFRASTRUCTURE", "DATABASE", "DOCUMENTATION"}

\* C1 (as claimed): component Create with a `type` outside the enumeration
\* returns a validation error with no request sent (tenant lookup included),
\* whether or not cloud_id is set, and with the local identifier empty.
C1_InvalidTypeFailsBeforeAnyRequest ==
    (call.op = "ComponentCreate" /\ InvalidComponentType(call.cfg.type))
      => /\ call.err.kind = "validation"
         /\ reqs = <<>>
         /\ call.d.id = <<>>

\* C2 (as claimed): component Update that changes `type` or `cloud_id` returns
\* a validation error, sends no request, and the state the host persists is
\* the state from before the call.
C2_RejectedUpdateLeavesStateUntouched ==
    (call.op = "ComponentUpdate"
       /\ (call.cfg.type # comp.type
           \/ (call.cfg.cloud_id # "" /\ call.cfg.cloud_id # comp.cloud_id)))
      => /\ call.err.kind = "validation"
         /\ reqs = <<>>
         /\ State(call.d) = comp

\* C3: component Create with a type of the enumeration, against an API that
\* answers every request of the call, succeeds with the identifier the create
\* mutation returned; the Read that follows leaves name, description and
\* owner_id as configured and `type` the configured enumeration value.
C3_Accepted ==
    /\ call.op = "ComponentCreate"
    /\ ~InvalidComponentType(call.cfg.type)
    /\ call.cfg.cloud_id # "" \/ provider.tenant # <<>>
    /\ \A i \in 1..Len(reqs) : Answered(reqs[i])
    /\ \A i \in Sent("tenantContexts") :
         /\ reqs[i].resp.data.tenantContexts # <<>>
         /\ reqs[i].resp.data.tenantContexts[1].cloudId # ""
    /\ \A i \in Sent("createComponent") :
         /\ reqs[i].resp.data.success
         /\ reqs[i].resp.data.componentDetails.id # <<>>

C3_CreateReadRoundTrip ==
    C3_Accepted
      => /\ call.err = NoErr
         /\ \E i \in Sent("createComponent") :
              call.d.id = reqs[i].resp.data.componentDetails.id
         /\ Sent("GetComponent") # {}
         /\ call.d.name = call.cfg.name
         /\ call.d.description = call.cfg.description
         /\ call.d.owner_id = call.cfg.owner_id
         /\ call.d.type = call.cfg.type
         /\ \A i \in Sent("GetComponent") :
              call.d.type # reqs[i].resp.data.component.typeId

C3_Witness ==
    /\ C3_Accepted
    /\ call.cfg.type = "DATABASE"
    /\ call.cfg.description = "desc-1"
    /\ call.cfg.cloud_id = ""
    /\ call.d.id # <<>>
    /\ call.d.cloud_id = "cloud-123"

\* C4: a component Read whose response carries an empty id clears the local
\* identifier and reports no error; in particular the Read that follows a
\* successful Delete of the same identifier does.
C4_ReadOfGoneComponentClears ==
    /\ (call.op = "ComponentRead" /\ Answered(reqs[1])
          /\ reqs[1].resp.data.component.id = <<>>)
         => (call.err = NoErr /\ call.d.id = <<>>)
    /\ (call.op = "ComponentDelete" /\ call.err = NoErr)
         => LET r == resourceComponentRead(comp, provider, remote, <<Answer("ok")>>)
            IN  /\ r.reqs[1].req.variables.id = comp.id
                /\ r.reqs[1].resp.data.component.id = <<>>
                /\ r.err = NoErr
                /\ r.d.id = <<>>

C4_Witness ==
    /\ call.op = "ComponentRead"
    /\ comp.id \in CompIds
    /\ Answered(reqs[1])
    /\ reqs[1].resp.data.component.id = <<>>
    /\ call.d.id = <<>>

\* The links query answered first in the call: in Create, the read-back.
FirstLinksQuery ==
    CHOOSE i \in Sent("GetComponentLinks") : \A j \in Sent("GetComponentLinks") : i <= j

IsMatch(l, cfg) ==
    /\ l.name = cfg.name /\ l.type = cfg.type /\ l.url = cfg.url
    /\ l.objectId = cfg.object_id

\* C5: the link that link Create adopts from its read-back has the configured
\* name, type and url and an objectId equal to the configured object_id
\* (empty when object_id is unset), wherever it stands in the list; and when
\* the list answered holds such a link, one is adopted.
C5_AdoptsOnlyEqualObjectId ==
    call.op = "LinkCreate"
      => /\ call.d.id # <<>> =>
              LET links == reqs[FirstLinksQuery].resp.data.links IN
                \E k \in 1..Len(links) :
                  links[k].id = call.d.id /\ IsMatch(links[k], call.cfg)
         /\ \A i \in Sent("GetComponentLinks") :
              (i = FirstLinksQuery /\ Answered(reqs[i])
                 /\ \E k \in 1..Len(reqs[i].resp.data.links) :
                      IsMatch(reqs[i].resp.data.links[k], call.cfg))
                => call.d.id # <<>>

C5_Witness ==
    /\ call.op = "LinkCreate"
    /\ call.cfg.object_id = ""
    /\ call.d.id # <<>>
    /\ LET links == reqs[FirstLinksQuery].resp.data.links IN
         /\ Len(links) = 2
         /\ links[1].name = call.cfg.name /\ links[1].type = call.cfg.type
         /\ links[1].url = call.cfg.url /\ links[1].objectId = "obj-123"
         /\ links[2].id = call.d.id

\* C6: link Import splits its string at the last ':' or '/': the links query
\* it sends asks for the component named by the part before it, and when it
\* returns without error component_id is that part and the identifier is the
\* part after it if the component has such a link (empty otherwise).  A
\* string with neither character is rejected with no request sent.
C6_ImportSplitsAtLastSeparator ==
    call.op = "LinkImport"
      => LET s == call.cfg IN
         /\ (\A k \in 1..Len(s) : s[k] \notin {":", "/"})
              => (call.err.kind = "import" /\ reqs = <<>> /\ call.d.id = <<>>)
         /\ \A k \in 1..Len(s) :
              (s[k] \in {":", "/"} /\ \A j \in (k + 1)..Len(s) : s[j] \notin {":", "/"})
                => LET c == SubSeq(s, 1, k - 1)
                       l == SubSeq(s, k + 1, Len(s))
                   IN  /\ call.err.kind # "import"
                       /\ \A i \in Sent("GetComponentLinks") :
                            reqs[i].req.variables.componentId = c
                       /\ call.err = NoErr =>
                            /\ Sent("GetComponentLinks") # {}
                            /\ call.d.component_id = c
                            /\ LET links == reqs[FirstLinksQuery].resp.data.links IN
                                 IF \E n \in 1..Len(links) : links[n].id = l
                                   THEN call.d.id = l
                                   ELSE call.d.id = <<>>

C6_Witness ==
    /\ call.op = "LinkImport"
    /\ call.cfg \in {<<"c", ":", "m">>, <<"c", "/", "m">>}
    /\ call.err = NoErr
    /\ call.d.component_id = <<"c">>
    /\ call.d.id = <<"m">>

\* C9 (as claimed): when link Create returns, either it succeeded and the
\* local identifier is that of the remote link this call created, or it
\* failed and every remote link this call created is the one the local
\* identifier names.
C9_CreateLeavesNoOrphan ==
    call.op = "LinkCreate"
      => \/ call.err = NoErr /\ call.d.id \in call.created
         \/ call.err # NoErr /\ call.created \subseteq {call.d.id}


\* C7: the tenant resolver sends exactly one tenantContexts query with a
\* single host name: tenant + ".atlassian.net" for a tenant without a dot,
\* the tenant itself otherwise; the host name is a fixed point of the rule.
C7_TenantHostName ==
    call.op = "GetCloudIDByTenant"
      => /\ Len(reqs) = 1
         /\ reqs[1].req.query = "tenantContexts"
         /\ Len(reqs[1].req.variables.hostNames) = 1
         /\ LET h == reqs[1].req.variables.hostNames[1] IN
              /\ HasDot(call.cfg) => h = call.cfg
              /\ ~HasDot(call.cfg) =>
                   h = call.cfg \o <<".", "a", "t", "l", "a", "s", "s", "i", "a", "n",
                                     ".", "n", "e", "t">>
              /\ HasDot(h)

C7_Witness ==
    /\ call.op = "GetCloudIDByTenant"
    /\ call.cfg = <<"a">> \o DomainSuffix
    /\ reqs[1].req.variables.hostNames = <<call.cfg>>

\* C8: the resolver fails with not-found on zero contexts or an empty first
\* cloudId, returns the first context's cloudId otherwise, and returns a
\* non-empty cloud id exactly when it returns no error.
C8_TenantNotFound ==
    call.op = "GetCloudIDByTenant"
      => /\ Answered(reqs[1]) =>
              LET ctx == reqs[1].resp.data.tenantContexts IN
                IF ctx = <<>> \/ ctx[1].cloudId = ""
                  THEN call.err.kind = "notfound"
                  ELSE call.err = NoErr /\ call.d = ctx[1].cloudId
         /\ (call.d # "") <=> (call.err = NoErr)

C8_Witness ==
    /\ call.op = "GetCloudIDByTenant"
    /\ Answered(reqs[1])
    /\ reqs[1].resp.data.tenantContexts = <<[cloudId |-> ""]>>
    /\ call.err.kind = "notfound"

\* Go's strings.Join(msgs, "; ")
RECURSIVE SemiJoin(_)
SemiJoin(msgs) ==
    IF msgs = <<>> THEN <<>>
    ELSE IF Len(msgs) = 1 THEN <<Head(msgs)>>
    ELSE <<Head(msgs), "; ">> \o SemiJoin(Tail(msgs))

IsInfix(a, b) == \E i \in 0..(Len(b) - Len(a)) : SubSeq(b, i + 1, i + Len(a)) = a

\* C11 (as claimed): on status 200 with a non-empty errors list ExecuteQuery
\* fails with a message that holds the returned messages in order joined with
\* "; " and returns no payload; a payload and an error never come together.
C11_ErrorsJoinedWithSemicolon ==
    call.op = "ExecuteQuery"
      => /\ (call.cfg.sent /\ call.cfg.status = 200 /\ call.cfg.json
               /\ call.cfg.errors # <<>>)
              => /\ call.err.kind = "graphql"
                 /\ IsInfix(SemiJoin(call.cfg.errors), call.err.detail)
                 /\ call.d = NoData
         /\ ~(call.d # NoData /\ call.err # NoErr)

\* C12 (amended): ExecuteQuery returns the envelope's data exactly when the
\* status is 200, the body decodes as an envelope and the errors list is
\* empty; on every other status, 2xx included, it fails with the status code
\* and the raw body without decoding it.
C12_PayloadOnlyOnStatusOK ==
    call.op = "ExecuteQuery"
      => /\ (call.err = NoErr)
              <=> (call.cfg.sent /\ call.cfg.status = 200 /\ call.cfg.json
                     /\ call.cfg.errors = <<>>)
         /\ call.err = NoErr => call.d = call.cfg.data
         /\ call.err # NoErr => call.d = NoData
         /\ (call.cfg.sent /\ call.cfg.status # 200)
              => /\ call.err.kind = "status"
                 /\ call.err.detail[1] = call.cfg.status
                 /\ call.err.detail[2] = [json |-> call.cfg.json, data |-> call.cfg.data,
                                          errors |-> call.cfg.errors]

C12_Witness ==
    /\ call.op = "ExecuteQuery"
    /\ call.cfg.status = 500 /\ call.cfg.json /\ call.cfg.data # NoData
    /\ call.cfg.errors = <<>>
    /\ call.err.kind = "status"
    /\ call.d = NoData

\* C12 (as claimed): with "success status" read as any 2xx status, a valid
\* error-free envelope is returned as the payload.
C12_PayloadOnEverySuccessStatus ==
    (call.op = "ExecuteQuery" /\ call.cfg.sent /\ call.cfg.status \in {200, 201}
       /\ call.cfg.json /\ call.cfg.errors = <<>>)
      => (call.err = NoErr /\ call.d = call.cfg.data)

\* C13 (as claimed): after a link Update that succeeded, importing
\* "<component_id>:<id>" into an empty state, with the tenant lookup and the
\* links query answered, yields the identifier, component_id, name, type, url
\* and object_id the Update left.
C13_ImportEqualsUpdatedState ==
    (call.op = "LinkUpdate" /\ call.err = NoErr /\ call.d.id # <<>>
       /\ provider.tenant # <<>>)
      => \A o \in Orders :
           LET r == resourceComponentLinkImport(
                      call.d.component_id \o <<":">> \o call.d.id, provider, remote,
                      <<[Answer("ok") EXCEPT !.contexts = <<[cloudId |-> "cloud-123"]>>],
                        [Answer("ok") EXCEPT !.order = o]>>)
           IN  /\ r.err = NoErr
               /\ r.d.id = call.d.id
               /\ r.d.component_id = call.d.component_id
               /\ r.d.name = call.d.name
               /\ r.d.type = call.d.type
               /\ r.d.url = call.d.url
               /\ r.d.object_id = call.d.object_id

\* C16 (as claimed): link Create, and link Update that changes `type`, with a
\* type outside the enumeration return a validation error with no request of
\* any kind sent.
C16_InvalidLinkTypeFailsBeforeAnyRequest ==
    (/\ call.op \in {"LinkCreate", "LinkUpdate"}
     /\ ~ValidLinkType(call.cfg.type)
     /\ call.op = "LinkUpdate" => call.cfg.type # link[call.res].type)
      => /\ call.err.kind = "validation"
         /\ reqs = <<>>

\* C19 (as claimed): a link Read whose links query is answered clears the
\* identifier without error when the list holds no link with the local
\* identifier, and otherwise leaves name, type, url and object_id equal to
\* that link's values, an empty objectId included.
C19_ReadMirrorsTheLink ==
    (call.op = "LinkRead" /\ Sent("GetComponentLinks") # {}
       /\ Answered(reqs[FirstLinksQuery]))
      => LET links == reqs[FirstLinksQuery].resp.data.links
             found == {k \in 1..Len(links) : links[k].id = link[call.res].id}
         IN  /\ call.err = NoErr
             /\ found = {} => call.d.id = <<>>
             /\ \A k \in found :
                  /\ call.d.id = link[call.res].id
                  /\ call.d.name = links[k].name
                  /\ call.d.type = links[k].type
                  /\ call.d.url = links[k].url
                  /\ call.d.object_id = links[k].objectId

\* The fields link Update and component Update send, compared between the
\* state before the call and the planned values.
LinkUnchanged ==
    LET old == link[call.res]
        d == PlannedLinkData(old, call.cfg)
    IN  /\ d.name = old.name /\ d.type = old.type
        /\ d.url = old.url /\ d.object_id = old.object_id

ComponentUnchanged ==
    LET d == PlannedData(comp, call.cfg)
    IN  /\ d.name = comp.name /\ d.description = comp.description
        /\ d.owner_id = comp.owner_id

\* The requests of a callback that returned without error, by callback.
RequestCount ==
    CASE call.op = "ComponentCreate" -> IF call.cfg.cloud_id = "" THEN 3 ELSE 2
      [] call.op = "ComponentUpdate" -> IF ComponentUnchanged THEN 1 ELSE 2
      [] call.op = "LinkCreate" -> IF call.cfg.cloud_id = "" THEN 4 ELSE 3
      [] call.op = "LinkUpdate" -> IF LinkUnchanged THEN 1 ELSE 2
      [] call.op = "LinkImport" -> 2
      [] OTHER -> 1

\* C14 (amended): a callback that returns without error has sent: Read and
\* Delete one request; Update the mutation and the Read's query, or the
\* Read's query alone when nothing changed; component Create the mutation and
\* the Read's query; link Create the mutation, the read-back and the Read's
\* query; both Creates one tenant lookup more when cloud_id is unset; link
\* Import the tenant lookup and the Read's query.  A callback that fails has
\* sent no more than that.
C14_RequestsPerCallback ==
    call # Idle
      => /\ Len(reqs) <= RequestCount
         /\ call.err = NoErr => Len(reqs) = RequestCount

C14_Witness ==
    /\ call.op = "LinkCreate"
    /\ call.err = NoErr
    /\ call.cfg.cloud_id = ""
    /\ call.d.id # <<>>
    /\ Len(reqs) = 4
    /\ Sent("tenantContexts") = {1}
    /\ Sent("createComponentLink") = {2}
    /\ Sent("GetComponentLinks") = {3, 4}

\* C14 (as claimed): a callback that returns without error has sent exactly
\* one request, link Create exactly two.
C14_OneRequestPerCallback ==
    (call # Idle /\ call.err = NoErr)
      => Len(reqs) = IF call.op = "LinkCreate" THEN 2 ELSE 1

\* C15: component Create and link Create with no cloud_id and no tenant
\* return a validation error with no request sent and the identifier empty;
\* with cloud_id set they send no tenant lookup and use the configured value.
C15_CloudIDResolution ==
    call.op \in {"ComponentCreate", "LinkCreate"}
      => /\ (call.cfg.cloud_id = "" /\ provider.tenant = <<>>)
              => /\ call.err.kind = "validation"
                 /\ reqs = <<>>
                 /\ call.d.id = <<>>
         /\ call.cfg.cloud_id # ""
              => /\ Sent("tenantContexts") = {}
                 /\ call.d.cloud_id = call.cfg.cloud_id
                 /\ \A i \in Sent("createComponent") :
                      reqs[i].req.variables.cloudId = call.cfg.cloud_id

C15_Witness ==
    /\ call.op = "LinkCreate"
    /\ call.cfg.cloud_id = ""
    /\ provider.tenant = <<>>
    /\ comp.id # <<>>
    /\ call.err.kind = "validation"
    /\ reqs = <<>>

\* C20: a link Update with name, type, url and object_id as in the state, and
\* a component Update with name, description and owner_id as in the state
\* (type and cloud_id unchanged), send no update mutation, change nothing
\* remotely and return what a Read of the planned values returns.
C20_NoOpUpdateIsARead ==
    /\ (call.op = "LinkUpdate" /\ LinkUnchanged)
         => /\ Sent("updateComponentLink") = {}
            /\ LET d == PlannedLinkData(link[call.res], call.cfg)
                   Call(in) == resourceComponentLinkRead(d, provider, remote, in)
               IN  [d |-> call.d, err |-> call.err, reqs |-> reqs, rs |-> remote]
                     \in Outcomes(Call, <<>>)
    /\ (call.op = "ComponentUpdate" /\ ComponentUnchanged
          /\ call.cfg.type = comp.type /\ call.cfg.cloud_id \in {"", comp.cloud_id})
         => /\ Sent("updateComponent") = {}
            /\ LET d == PlannedData(comp, call.cfg)
                   Call(in) == resourceComponentRead(d, provider, remote, in)
               IN  [d |-> call.d, err |-> call.err, reqs |-> reqs, rs |-> remote]
                     \in Outcomes(Call, <<>>)

C20_Witness ==
    /\ call.op = "LinkUpdate"
    /\ LinkUnchanged
    /\ link[call.res].object_id = "obj-123"
    /\ call.err = NoErr
    /\ call.d.id # <<>>
    /\ Sent("GetComponentLinks") = {1}

\* The input of the update mutation carries `key` exactly when the planned
\* value differs from the state's, with the planned value.
Carries(field, old, new) ==
    /\ field.set <=> old # new
    /\ field.set => (~field.null /\ field.val = new)

\* The link update mutation's input: component id and link id always, name,
\* type, url and objectId exactly when changed, an emptied object_id as null.
LinkUpdateInputHoldsChanges ==
    call.op = "LinkUpdate"
      => \A i \in Sent("updateComponentLink") :
           LET input == reqs[i].req.variables.input
               old == link[call.res]
           IN  /\ input.componentId = old.component_id
               /\ input.link.id = old.id
               /\ Carries(input.link.name, old.name, call.cfg.name)
               /\ Carries(input.link.type, old.type, call.cfg.type)
               /\ Carries(input.link.url, old.url, call.cfg.url)
               /\ input.link.objectId.set <=> old.object_id # call.cfg.object_id
               /\ input.link.objectId.set
                    => IF call.cfg.object_id = "" THEN input.link.objectId.null
                       ELSE /\ ~input.link.objectId.null
                            /\ input.link.objectId.val = call.cfg.object_id

\* A link Update that sent its mutation and returned without error, the
\* link still there, leaves the configured values.
LinkUpdateLeavesConfigured ==
    (call.op = "LinkUpdate" /\ Sent("updateComponentLink") # {}
       /\ call.err = NoErr /\ call.d.id # <<>>)
      => /\ call.d.name = call.cfg.name
         /\ call.d.type = call.cfg.type
         /\ call.d.url = call.cfg.url
         /\ call.d.object_id = call.cfg.object_id

\* C21 (as claimed): the link update mutation carries the component id, the
\* link id and exactly the changed fields (an emptied object_id as null), and
\* after a successful Update local name, type, url and object_id equal the
\* configured values.
C21_LinkUpdateSendsChangesAndConverges ==
    LinkUpdateInputHoldsChanges /\ LinkUpdateLeavesConfigured

\* The component update mutation's input: the id always, name, description
\* and ownerId exactly when changed, an emptied owner_id as null and an
\* emptied description as the empty string.
ComponentUpdateInputHoldsChanges ==
    call.op = "ComponentUpdate"
      => \A i \in Sent("updateComponent") :
           LET input == reqs[i].req.variables.input
           IN  /\ input.id = comp.id
               /\ Carries(input.name, comp.name, call.cfg.name)
               /\ Carries(input.description, comp.description, call.cfg.description)
               /\ input.ownerId.set <=> comp.owner_id # call.cfg.owner_id
               /\ input.ownerId.set
                    => IF call.cfg.owner_id = "" THEN input.ownerId.null
                       ELSE /\ ~input.ownerId.null
                            /\ input.ownerId.val = call.cfg.owner_id

\* A component Update that sent its mutation and returned without error, the
\* component still there, leaves the configured values.
ComponentUpdateLeavesConfigured ==
    (call.op = "ComponentUpdate" /\ Sent("updateComponent") # {}
       /\ call.err = NoErr /\ call.d.id # <<>>)
      => /\ call.d.name = call.cfg.name
         /\ call.d.description = call.cfg.description
         /\ call.d.owner_id = call.cfg.owner_id

\* C22 (as claimed): the component update mutation carries the id and exactly
\* the changed fields, and after a successful Update local name, description
\* and owner_id equal the configured values.
C22_ComponentUpdateSendsChangesAndConverges ==
    ComponentUpdateInputHoldsChanges /\ ComponentUpdateLeavesConfigured

\* The delete mutation of the call was accepted: answered with status 200, no
\* errors, a decodable payload and success = true.
DeleteAccepted ==
    /\ Answered(reqs[1])
    /\ reqs[1].resp.data.success

\* C23: component Delete and link Delete send one mutation, keyed by the
\* identifier (link: the component id and the link id) of the local state;
\* they clear the identifier without error if it was accepted, and otherwise
\* return an error with the identifier and every field as before.
C23_DeleteClearsOnlyOnSuccess ==
    /\ call.op = "ComponentDelete"
         => /\ Len(reqs) = 1
            /\ reqs[1].req.query = "deleteComponent"
            /\ reqs[1].req.variables.input.id = comp.id
            /\ IF DeleteAccepted THEN call.err = NoErr /\ call.d.id = <<>>
               ELSE call.err # NoErr /\ call.d = comp
    /\ call.op = "LinkDelete"
         => /\ Len(reqs) = 1
            /\ reqs[1].req.query = "deleteComponentLink"
            /\ reqs[1].req.variables.input.componentId = link[call.res].component_id
            /\ reqs[1].req.variables.input.link = link[call.res].id
            /\ IF DeleteAccepted THEN call.err = NoErr /\ call.d.id = <<>>
               ELSE call.err # NoErr /\ call.d = link[call.res]

C23_Witness ==
    /\ call.op = "LinkDelete"
    /\ reqs[1].resp.sent /\ reqs[1].resp.status = 200 /\ reqs[1].resp.errors = <<>>
    /\ reqs[1].resp.data.shape = "deleteComponentLink"
    /\ ~reqs[1].resp.data.success
    /\ call.err.kind = "nosuccess"
    /\ call.d.id # <<>>
    /\ comp.id # <<>>

\* The failure of one round trip, by the step that detects it: "" if none.
StepFailure(x) ==
    IF ~x.resp.sent THEN "transport"
    ELSE IF x.resp.status # 200 THEN "status"
    ELSE IF ~x.resp.json THEN "unmarshal"
    ELSE IF x.resp.errors # <<>> THEN "graphql"
    ELSE IF x.resp.data.shape # x.req.query THEN "unmarshal"
    ELSE IF "success" \in DOMAIN x.resp.data /\ ~x.resp.data.success THEN "nosuccess"
    ELSE ""

\* C24: in every callback only the last request may have failed (transport
\* error, status other than 200, GraphQL errors, undecodable payload or
\* success = false), and then the callback returns that failure as its error.
C24_StopsAtFirstFailure ==
    call # Idle
      => \A i \in 1..Len(reqs) :
           StepFailure(reqs[i]) # ""
             => /\ i = Len(reqs)
                /\ call.err.kind = StepFailure(reqs[i])

C24_Witness ==
    /\ call.op = "LinkCreate"
    /\ Len(reqs) = 3
    /\ Sent("createComponentLink") = {2}
    /\ StepFailure(reqs[2]) = ""
    /\ StepFailure(reqs[3]) = "graphql"
    /\ call.err.kind = "graphql"
    /\ call.d.id = <<>>

\* C25: under every interleaving of the ExecuteQuery calls of two callbacks
\* on the shared client, every call read the response that arrived on the
\* connection of its own request and returned that response's payload or
\* error, and every request sent carries the URL of the client as configured.
C25_CallsSeeOnlyTheirOwnResponse ==
    \A g \in Goroutines :
      \A i \in 1..Len(goroutine[g].log) :
        LET e == goroutine[g].log[i] IN
          /\ e.x.resp = e.own
          /\ e.x.req.url = provider.client.baseURL \o <<graphQLPath>>
          /\ e.err = NoErr => (e.data = e.own.data /\ e.data.shape = e.x.req.query)
          /\ e.err # NoErr => e.data = NoData

C25_Witness ==
    /\ goroutine["g1"].pc = "waiting" /\ goroutine["g2"].pc = "waiting"
    /\ wire["g1"].answered /\ wire["g2"].answered
    /\ wire["g1"].resp # wire["g2"].resp
    /\ Len(goroutine["g1"].log) = 2 /\ Len(goroutine["g2"].log) = 1
    /\ goroutine["g1"].log[2].err = NoErr
    /\ goroutine["g2"].log[1].err = NoErr
    /\ goroutine["g1"].log[2].data # goroutine["g2"].log[1].data

\* C26: a Create with cloud_id unset and a tenant configured sends one tenant
\* lookup of its own, also when another resource's state already holds a
\* resolved value, and on success stores the value the lookup returned in
\* cloud_id; a Create with cloud_id configured, and a Read or Update of a
\* state that holds a cloud_id, send no tenant lookup.
C26_CloudIDCachedInStateOnly ==
    /\ (call.op \in {"ComponentCreate", "LinkCreate"} /\ call.cfg.cloud_id = ""
          /\ provider.tenant # <<>>)
         => /\ Sent("tenantContexts") = {1}
            /\ (call.err = NoErr /\ call.d.id # <<>>)
                 => /\ call.d.cloud_id # ""
                    /\ call.d.cloud_id = reqs[1].resp.data.tenantContexts[1].cloudId
    /\ (call.op \in {"ComponentCreate", "LinkCreate"} /\ call.cfg.cloud_id # "")
         => Sent("tenantContexts") = {}
    /\ (call.op \in {"ComponentRead", "ComponentUpdate"} /\ comp.cloud_id # "")
         => Sent("tenantContexts") = {}
    /\ (call.op \in {"LinkRead", "LinkUpdate"} /\ link[call.res].cloud_id # "")
         => Sent("tenantContexts") = {}

C26_Witness ==
    /\ call.op = "LinkCreate"
    /\ call.cfg.cloud_id = ""
    /\ comp.id # <<>> /\ comp.cloud_id = "cloud-9"
    /\ Sent("tenantContexts") = {1}
    /\ call.err = NoErr
    /\ call.d.id # <<>>
    /\ call.d.cloud_id = "cloud-123"

\* C27: two link Creates with the same name, type, url and object_id on one
\* component can interleave so that both succeed holding the same identifier;
\* whenever the two resources hold the same identifier they hold the same
\* fields, and the component has another link with those fields that neither
\* resource tracks.
C27_SharedIdentifierLeavesLinkUntracked ==
    (link["link_a"].id # <<>> /\ link["link_a"].id = link["link_b"].id)
      => /\ link["link_a"].component_id = link["link_b"].component_id
         /\ link["link_a"].name = link["link_b"].name
         /\ link["link_a"].type = link["link_b"].type
         /\ link["link_a"].url = link["link_b"].url
         /\ link["link_a"].object_id = link["link_b"].object_id
         /\ \E l \in remote.links :
              /\ l.id # link["link_a"].id
              /\ l.componentId = link["link_a"].component_id
              /\ l.name = link["link_a"].name /\ l.type = link["link_a"].type
              /\ l.url = link["link_a"].url /\ l.objectId = link["link_a"].object_id

\* Both Creates sent their mutation before either sent its read-back.
C27_Witness ==
    /\ link["link_a"].id # <<>> /\ link["link_a"].id = link["link_b"].id
    /\ Cardinality(remote.links) = 2
    /\ \A g \in Goroutines :
         /\ goroutine[g].pc = "idle"
         /\ goroutine[g].err = NoErr
         /\ goroutine[g].cfg.object_id = ""
         /\ goroutine[g].cfg.cloud_id = "cloud-123"
         /\ Len(goroutine[g].log) = 3
         /\ goroutine[g].log[1].x.req.query = "createComponentLink"
         /\ goroutine[g].log[2].x.req.query = "GetComponentLinks"
         /\ Len(goroutine[g].log[2].data.links) = 2
         /\ goroutine[g].d.id = link["link_a"].id

\* C28 (as claimed): the identifier a successful link Create adopts is that
\* of a link the call itself created, never one of a link the component had
\* before the call.
C28_CreateAdoptsItsOwnLink ==
    (call.op = "LinkCreate" /\ call.err = NoErr /\ call.d.id # <<>>)
      => call.d.id \in call.created

\* C29 (as claimed): a component Create or link Create that returns without
\* an error leaves a non-empty identifier that names a remote entity.
C29_CreateSucceedsOnlyWithAnEntity ==
    /\ (call.op = "ComponentCreate" /\ call.err = NoErr)
         => (call.d.id # <<>> /\ Lookup(remote, call.d.id).id = call.d.id)
    /\ (call.op = "LinkCreate" /\ call.err = NoErr)
         => (call.d.id # <<>> /\ \E l \in remote.links : l.id = call.d.id)

\* C30 (as claimed): a component with a non-empty identifier in state has a
\* `type` of the enumeration.
C30_StoredTypeIsOfTheEnumeration ==
    comp.id # <<>> => ~InvalidComponentType(comp.type)

\* C17: a component Read of a state whose `type` is not empty leaves `type`
\* and `cloud_id` as they were, whatever typeId the API returns.
C17_ReadPreservesType ==
    (call.op = "ComponentRead" /\ comp.type # "")
      => (call.d.type = comp.type /\ call.d.cloud_id = comp.cloud_id)

C17_Witness ==
    /\ call.op = "ComponentRead"
    /\ comp.type = "LIBRARY"
    /\ Answered(reqs[1])
    /\ reqs[1].resp.data.component.id # <<>>
    /\ reqs[1].resp.data.component.typeId = "type-library"
    /\ call.d.type = "LIBRARY"

\* C18 (as claimed): after a component Read that found the component, local
\* name, description and owner_id equal the values the API returned, an
\* empty ownerId included.
C18_ReadRepopulatesFields ==
    (call.op = "ComponentRead" /\ Answered(reqs[1])
       /\ reqs[1].resp.data.component.id # <<>>)
      => LET component == reqs[1].resp.data.component IN
           /\ call.d.name = component.name
           /\ call.d.description = component.description
           /\ call.d.owner_id = component.ownerId

\* C10 (as claimed): every request a configured provider sends goes to an
\* https URL.
C10_RequestsUseHTTPS ==
    \A i \in 1..Len(reqs) : reqs[i].req.url[1] = "https://"

====
